---- MODULE Spec2Model ----
(***************************************************************************)
(* The personal finance dashboard of src/utils/currencyFormatter.ts: the   *)
(* ledger engine (class DataManager, second half of the file) and the      *)
(* currency formatting engine (class CurrencyFormatter, first half); and   *)
(* the number abbreviator of src/utils/numberFormatter.ts.                 *)
(*                                                                         *)
(* The DataManager keeps no state of its own: every method reads a whole   *)
(* collection from localStorage, changes the copy and writes it back.  The *)
(* state of the model is therefore the content of the storage keys         *)
(* 'savings', 'spending', 'settings' and 'investments', the reading of     *)
(* Date.now() that supplies ids, and a history variable that records a     *)
(* call, its result and the storage before it.  CurrencyFormatter and      *)
(* NumberFormatter are sets of pure functions; their calls are recorded in *)
(* the history variable.                                                   *)
(***************************************************************************)
EXTENDS Integers, Sequences, FiniteSets, TLC

(***************************************************************************)
(* Bounds of the model.                                                    *)
(***************************************************************************)
MaxClock == 2        \* Date.now() takes the values 1..MaxClock
MaxAccounts == 2     \* at most this many stored savings accounts
MaxEntries == 1      \* at most this many stored spending entries (Spec, SpecPositive)
MaxLedgerEntries == 2 \* at most this many stored spending entries (SpecLedger)
MaxBalance == 3      \* balances are kept within -MaxDebt..MaxBalance
MaxDebt == 1
MaxAmount == 2       \* amounts of the calls are taken from -MaxNegative..MaxAmount
MaxNegative == 1
MaxFaults == 1       \* at most this many storage writes fail in a behaviour
MaxWrites == 5       \* the failing write of a call is one of its first MaxWrites writes
MaxAnalyticsEntries == 3 \* at most this many stored spending entries (SpecAnalytics)
MaxDate == 2         \* entry dates and query dates are the instants 0..MaxDate
MonthsPerYear == 2   \* the calendar of the instants: one per month, MonthsPerYear a year
MaxIntegerDigits == 7 \* formatted amounts have integer parts of 1..MaxIntegerDigits digits
MaxInvestments == 3  \* at most this many stored investments
MaxFrameInvestments == 1 \* at most this many stored investments (SpecFrame)

VARIABLES
    savings,     \* storage key 'savings': sequence of accounts [id, balance]
    spending,    \* storage key 'spending': sequence of spending entries
    settings,    \* storage key 'settings': the stored AppSettings, or NoSettings
    investments, \* storage key 'investments': sequence of investments [id, amount]
    clock,       \* current reading of Date.now()
    faults,      \* number of storage writes that have failed so far
    base,        \* the accounts the ledger run started with (SpecLedger only)
    obs          \* history: the observed call, its outcome and the storage before it

vars == <<savings, spending, settings, investments, clock, faults, base, obs>>

NoId == 0            \* an absent (undefined / empty) accountId or transferToAccountId
NoErr == "none"

\* the Errors saveToStorage throws: `Failed to save ${key}`
PersistenceErrors == {"Failed to save savings", "Failed to save spending"}

Ids == 1..MaxClock
Refs == {NoId} \cup Ids
Amounts == (0 - MaxNegative)..MaxAmount
PositiveAmounts == 1..MaxAmount
Balances == 0..MaxBalance
Types == {"expense", "transfer"}

(***************************************************************************)
(* Array helpers of the source (Array.prototype.findIndex / find).         *)
(***************************************************************************)
\* index of the first element whose id is `id`, 0 when there is none (-1 in the source)
FindIndex(seq, id) ==
    IF \E i \in 1..Len(seq) : seq[i].id = id
    THEN CHOOSE i \in 1..Len(seq) : seq[i].id = id /\ \A j \in 1..(i - 1) : seq[j].id # id
    ELSE 0

HasAccount(accounts, id) == FindIndex(accounts, id) # 0

\* balance of the account that accounts.find(acc => acc.id === id) returns
BalanceOf(accounts, id) == accounts[FindIndex(accounts, id)].balance

(***************************************************************************)
(* A call works on a store: the two collections, the number of storage     *)
(* writes attempted so far in this call, the error thrown (if any) and the *)
(* value returned.  failAt is the number of the write of this call on      *)
(* which localStorage.setItem throws (0: none does).                       *)
(***************************************************************************)
Store(sav, spe) == [savings |-> sav, spending |-> spe, n |-> 0, err |-> NoErr, ret |-> "void"]

saveToStorage(s, key, data, failAt) ==
    IF s.n + 1 = failAt
    THEN [s EXCEPT !.n = @ + 1,
                   !.err = IF key = "savings" THEN "Failed to save savings"
                           ELSE "Failed to save spending"]
    ELSE [s EXCEPT ![key] = data, !.n = @ + 1]

\* updateSavingsAccount that adds to the balance instead of replacing it
updateSavingsAccountMut(s, id, balance, failAt) ==
    LET accounts == s.savings
        index == FindIndex(accounts, id)
    IN  IF index = 0
        THEN [s EXCEPT !.ret = "null"]
        ELSE [saveToStorage(s, "savings", [accounts EXCEPT ![index].balance = @ + balance], failAt)
                EXCEPT !.ret = "account"]

updateSavingsAccount(s, id, balance, failAt) ==
    LET accounts == s.savings
        index == FindIndex(accounts, id)
    IN  IF index = 0
        THEN [s EXCEPT !.ret = "null"]
        ELSE [saveToStorage(s, "savings", [accounts EXCEPT ![index].balance = balance], failAt)
                EXCEPT !.ret = "account"]

\* TransferRefused without the balance check
TransferRefusedMut(accounts, fromId, toId, amount) ==
    \/ ~HasAccount(accounts, fromId)
    \/ ~HasAccount(accounts, toId)

\* the guard of transferBetweenAccounts: !fromAccount || !toAccount || fromAccount.balance < amount
TransferRefused(accounts, fromId, toId, amount) ==
    \/ ~HasAccount(accounts, fromId)
    \/ ~HasAccount(accounts, toId)
    \/ BalanceOf(accounts, fromId) < amount

transferBetweenAccounts(s, fromId, toId, amount, failAt) ==
    LET accounts == s.savings
    IN  IF TransferRefused(accounts, fromId, toId, amount)
        THEN [s EXCEPT !.ret = "false"]
        ELSE LET fromBalance == BalanceOf(accounts, fromId)
                 toBalance == BalanceOf(accounts, toId)
                 s1 == updateSavingsAccount(s, fromId, fromBalance - amount, failAt)
                 s2 == updateSavingsAccount(s1, toId, toBalance + amount, failAt)
             IN  IF s1.err # NoErr THEN s1
                 ELSE IF s2.err # NoErr THEN s2
                 ELSE [s2 EXCEPT !.ret = "true"]

\* CanDeduct without the balance check
CanDeductMut(accounts, accountId, amount) ==
    HasAccount(accounts, accountId)

\* the test of the expense branch: account && account.balance >= entry.amount
CanDeduct(accounts, accountId, amount) ==
    HasAccount(accounts, accountId) /\ BalanceOf(accounts, accountId) >= amount

\* applyEffect that ignores the value transferBetweenAccounts returns
applyEffectMut(s, e, failAt) ==
    IF e.type = "expense" /\ e.accountId # NoId
    THEN IF CanDeduct(s.savings, e.accountId, e.amount)
         THEN updateSavingsAccount(s, e.accountId, BalanceOf(s.savings, e.accountId) - e.amount, failAt)
         ELSE [s EXCEPT !.err = "InsufficientBalance"]
    ELSE IF e.type = "transfer" /\ e.accountId # NoId /\ e.transferToAccountId # NoId
    THEN transferBetweenAccounts(s, e.accountId, e.transferToAccountId, e.amount, failAt)
    ELSE s

\* lines 583-600 of addSpendingEntry and 633-648 of updateSpendingEntry:
\* apply the balance effect of entry e
applyEffect(s, e, failAt) ==
    IF e.type = "expense" /\ e.accountId # NoId
    THEN IF CanDeduct(s.savings, e.accountId, e.amount)
         THEN updateSavingsAccount(s, e.accountId, BalanceOf(s.savings, e.accountId) - e.amount, failAt)
         ELSE [s EXCEPT !.err = "InsufficientBalance"]
    ELSE IF e.type = "transfer" /\ e.accountId # NoId /\ e.transferToAccountId # NoId
    THEN LET t == transferBetweenAccounts(s, e.accountId, e.transferToAccountId, e.amount, failAt)
         IN  IF t.err = NoErr /\ t.ret = "false"
             THEN [t EXCEPT !.err = "TransferFailed"]
             ELSE t
    ELSE s

\* revertEffect without the reverse transfer
revertEffectMut(s, e, failAt) ==
    IF e.type = "expense" /\ e.accountId # NoId
    THEN IF HasAccount(s.savings, e.accountId)
         THEN updateSavingsAccount(s, e.accountId, BalanceOf(s.savings, e.accountId) + e.amount, failAt)
         ELSE s
    ELSE s

\* lines 614-625 of updateSpendingEntry and 662-673 of deleteSpendingEntry:
\* revert the balance effect of the stored entry e
revertEffect(s, e, failAt) ==
    IF e.type = "expense" /\ e.accountId # NoId
    THEN IF HasAccount(s.savings, e.accountId)
         THEN updateSavingsAccount(s, e.accountId, BalanceOf(s.savings, e.accountId) + e.amount, failAt)
         ELSE s
    ELSE IF e.type = "transfer" /\ e.accountId # NoId /\ e.transferToAccountId # NoId
    THEN transferBetweenAccounts(s, e.transferToAccountId, e.accountId, e.amount, failAt)
    ELSE s

addSpendingEntry(s, entry, now, failAt) ==
    LET entries == s.spending
        newEntry == [f \in DOMAIN entry \cup {"id"} |-> IF f = "id" THEN now ELSE entry[f]]
        s1 == applyEffect(s, entry, failAt)
    IN  IF s1.err # NoErr THEN s1
        ELSE [saveToStorage(s1, "spending", Append(entries, newEntry), failAt)
                EXCEPT !.ret = "entry"]

\* { ...originalEntry, ...updates }: updates is a function on a subset of the fields
Merge(originalEntry, updates) ==
    [f \in DOMAIN originalEntry |->
        IF f \in DOMAIN updates THEN updates[f] ELSE originalEntry[f]]

\* updateSpendingEntry that tests the updated entry against the balances
\* as they were before the revert
updateSpendingEntryMut(s, id, updates, failAt) ==
    LET entries == s.spending
        index == FindIndex(entries, id)
    IN  IF index = 0 THEN [s EXCEPT !.ret = "null"]
        ELSE LET originalEntry == entries[index]
                 updatedEntry == Merge(originalEntry, updates)
                 s0 == applyEffect(s, updatedEntry, 0)
                 s1 == revertEffect(s, originalEntry, failAt)
                 s2 == applyEffect(s1, updatedEntry, failAt)
             IN  IF s0.err # NoErr THEN [s EXCEPT !.err = s0.err]
                 ELSE IF s1.err # NoErr THEN s1
                 ELSE IF s2.err # NoErr THEN s2
                 ELSE [saveToStorage(s2, "spending", [entries EXCEPT ![index] = updatedEntry], failAt)
                         EXCEPT !.ret = "entry"]

updateSpendingEntry(s, id, updates, failAt) ==
    LET entries == s.spending
        index == FindIndex(entries, id)
    IN  IF index = 0 THEN [s EXCEPT !.ret = "null"]
        ELSE LET originalEntry == entries[index]
                 s1 == revertEffect(s, originalEntry, failAt)
                 updatedEntry == Merge(originalEntry, updates)
                 s2 == applyEffect(s1, updatedEntry, failAt)
             IN  IF s1.err # NoErr THEN s1
                 ELSE IF s2.err # NoErr THEN s2
                 ELSE [saveToStorage(s2, "spending", [entries EXCEPT ![index] = updatedEntry], failAt)
                         EXCEPT !.ret = "entry"]

\* deleteSpendingEntry without the early return
deleteSpendingEntryMut(s, id, failAt) ==
    LET entries == s.spending
        filteredEntries == SelectSeq(entries, LAMBDA x : x.id # id)
    IN  [saveToStorage(s, "spending", filteredEntries, failAt) EXCEPT !.ret = "true"]

deleteSpendingEntry(s, id, failAt) ==
    LET entries == s.spending
        entryIndex == FindIndex(entries, id)
    IN  IF entryIndex = 0 THEN [s EXCEPT !.ret = "false"]
        ELSE LET entry == entries[entryIndex]
                 s1 == revertEffect(s, entry, failAt)
                 filteredEntries == SelectSeq(entries, LAMBDA x : x.id # id)
             IN  IF s1.err # NoErr THEN s1
                 ELSE [saveToStorage(s1, "spending", filteredEntries, failAt)
                         EXCEPT !.ret = "true"]

addSavingsAccount(s, balance, now, failAt) ==
    [saveToStorage(s, "savings", Append(s.savings, [id |-> now, balance |-> balance]), failAt)
        EXCEPT !.ret = "account"]

deleteSavingsAccount(s, id, failAt) ==
    LET accounts == s.savings
        filteredAccounts == SelectSeq(accounts, LAMBDA a : a.id # id)
    IN  IF Len(filteredAccounts) = Len(accounts) THEN [s EXCEPT !.ret = "false"]
        ELSE [saveToStorage(s, "savings", filteredAccounts, failAt) EXCEPT !.ret = "true"]

(***************************************************************************)
(* Analytics.  An entry's date is the instant new Date(entry.date) denotes *)
(* (0..MaxDate); getFullYear and getMonth read the calendar off it.        *)
(***************************************************************************)
getFullYear(date) == date \div MonthsPerYear
getMonth(date) == date % MonthsPerYear

\* entries.reduce((total, entry) => total + entry.amount, 0)
RECURSIVE TotalAmount(_)
TotalAmount(entries) ==
    IF entries = <<>> THEN 0
    ELSE TotalAmount(SubSeq(entries, 1, Len(entries) - 1)) + entries[Len(entries)].amount

\* getMonthlySpending whose filter does not look at the type
getMonthlySpendingMut(entries, year, month) ==
    TotalAmount(SelectSeq(entries, LAMBDA entry :
        /\ getFullYear(entry.date) = year
        /\ getMonth(entry.date) = month))

getMonthlySpending(entries, year, month) ==
    TotalAmount(SelectSeq(entries, LAMBDA entry :
        /\ getFullYear(entry.date) = year
        /\ getMonth(entry.date) = month
        /\ entry.type = "expense"))

\* the reducer of getSpendingByCategory:
\* acc[entry.category] = (acc[entry.category] || 0) + entry.amount
RECURSIVE TotalByCategory(_)
TotalByCategory(entries) ==
    IF entries = <<>> THEN <<>>
    ELSE LET acc == TotalByCategory(SubSeq(entries, 1, Len(entries) - 1))
             entry == entries[Len(entries)]
         IN  [c \in DOMAIN acc \cup {entry.category} |->
                 IF c = entry.category
                 THEN (IF c \in DOMAIN acc THEN acc[c] ELSE 0) + entry.amount
                 ELSE acc[c]]

getSpendingByCategory(entries, startDate, endDate) ==
    TotalByCategory(SelectSeq(entries, LAMBDA entry :
        /\ entry.date >= startDate
        /\ entry.date <= endDate
        /\ entry.type = "expense"))

(***************************************************************************)
(* Investments.  Of an Investment the model keeps id and amount.           *)
(***************************************************************************)
addInvestment(stored, investment, now) ==
    LET newInvestment == [f \in DOMAIN investment \cup {"id"} |->
                             IF f = "id" THEN now ELSE investment[f]]
    IN  Append(stored, newInvestment)

\* null ("none") when no investment has the id
updateInvestment(stored, id, updates) ==
    LET index == FindIndex(stored, id)
    IN  IF index = 0 THEN [investments |-> stored, ret |-> "none"]
        ELSE [investments |-> [stored EXCEPT ![index] = Merge(@, updates)],
              ret |-> "investment"]

deleteInvestment(stored, id) ==
    LET filteredInvestments == SelectSeq(stored, LAMBDA investment : investment.id # id)
    IN  IF Len(filteredInvestments) = Len(stored)
        THEN [investments |-> stored, ret |-> "false"]
        ELSE [investments |-> filteredInvestments, ret |-> "true"]

\* Array.prototype.reduce with the callback (total, investment) => investment.amount
RECURSIVE reduceInvestments(_, _)
reduceInvestments(stored, total) ==
    IF stored = <<>> THEN total
    ELSE reduceInvestments(Tail(stored), Head(stored).amount)

getTotalInvestments(stored) == reduceInvestments(stored, 0)

(***************************************************************************)
(* Settings.  Of AppSettings the model keeps categories (as a set) and     *)
(* categoryColors (a function from category names to colours).  A colour   *)
(* object is a plain JavaScript object: reading a key it does not own      *)
(* yields what Object.prototype has under that name.                       *)
(***************************************************************************)
NoSettings == <<>>           \* localStorage has no 'settings' item
Gray == "#6b7280"
defaultCategories == {"Food"}
defaultCategoryColors == [c \in defaultCategories |-> "#ef4444"]
defaultSettings == [categories |-> defaultCategories, categoryColors |-> defaultCategoryColors]

\* names under which every plain object inherits a (truthy) property
ObjectPrototype == {"constructor"}

\* colors[category] is truthy
HasColor(colors, category) == category \in DOMAIN colors \/ category \in ObjectPrototype

\* categories.forEach(category => { if (!colors[category]) colors[category] = '#6b7280' })
WithGray(colors, categories) ==
    [c \in DOMAIN colors \cup {k \in categories : ~HasColor(colors, k)} |->
        IF c \in DOMAIN colors THEN colors[c] ELSE Gray]

getSettings(stored) ==
    LET storedSettings == IF DOMAIN stored = {} THEN defaultSettings ELSE stored
        mergedSettings == [categories |-> storedSettings.categories,
                           categoryColors |-> storedSettings.categoryColors]
        updatedCategoryColors == WithGray(defaultCategoryColors, mergedSettings.categories)
    IN  [mergedSettings EXCEPT !.categoryColors = updatedCategoryColors]

\* the settings updateSettings stores and returns
updateSettings(stored, updates) ==
    LET currentSettings == getSettings(stored)
        newSettings == Merge(currentSettings, updates)
    IN  IF "categories" \in DOMAIN updates
        THEN [newSettings EXCEPT !.categoryColors = WithGray(@, updates.categories)]
        ELSE newSettings

(***************************************************************************)
(* CurrencyFormatter (first half of src/utils/currencyFormatter.ts).       *)
(*                                                                         *)
(* A string is a sequence of characters, a character a one-letter string   *)
(* ("U+20AC" stands for the character with that code point).  An amount is *)
(* a number with at most two decimal digits, kept as its count of          *)
(* hundredths: 123456789 is 1234567.89.  A number that parse returns is    *)
(* kept as mantissa and count of decimal digits, [m |-> 1234, e |-> 3]     *)
(* being 1.234, without trailing zeros in the decimal digits.              *)
(***************************************************************************)
CurrencyConfig(code, symbol, decimals, symbolPosition, thousandsSeparator, decimalSeparator) ==
    [code |-> code, symbol |-> symbol, decimals |-> decimals, symbolPosition |-> symbolPosition,
     thousandsSeparator |-> thousandsSeparator, decimalSeparator |-> decimalSeparator]

CURRENCIES ==
    "USD" :> CurrencyConfig("USD", <<"$">>, 2, "before", <<",">>, <<".">>)
    @@ "EUR" :> CurrencyConfig("EUR", <<"U+20AC">>, 2, "after", <<".">>, <<",">>)
    @@ "GBP" :> CurrencyConfig("GBP", <<"U+00A3">>, 2, "before", <<",">>, <<".">>)
    @@ "JPY" :> CurrencyConfig("JPY", <<"U+00A5">>, 0, "before", <<",">>, <<".">>)
    @@ "IDR" :> CurrencyConfig("IDR", <<"R", "p">>, 2, "before", <<".">>, <<",">>)
    @@ "INR" :> CurrencyConfig("INR", <<"U+20B9">>, 2, "before", <<",">>, <<".">>)
    @@ "CNY" :> CurrencyConfig("CNY", <<"U+00A5">>, 2, "before", <<",">>, <<".">>)
    @@ "KRW" :> CurrencyConfig("KRW", <<"U+20A9">>, 0, "before", <<",">>, <<".">>)
    @@ "AUD" :> CurrencyConfig("AUD", <<"A", "$">>, 2, "before", <<",">>, <<".">>)
    @@ "CAD" :> CurrencyConfig("CAD", <<"C", "$">>, 2, "before", <<",">>, <<".">>)
    @@ "CHF" :> CurrencyConfig("CHF", <<"C", "H", "F">>, 2, "before", <<"'">>, <<".">>)
    @@ "SEK" :> CurrencyConfig("SEK", <<"k", "r">>, 2, "after", <<" ">>, <<",">>)
    @@ "NOK" :> CurrencyConfig("NOK", <<"k", "r">>, 2, "after", <<" ">>, <<",">>)
    @@ "DKK" :> CurrencyConfig("DKK", <<"k", "r">>, 2, "after", <<".">>, <<",">>)
    @@ "PLN" :> CurrencyConfig("PLN", <<"z", "U+0142">>, 2, "after", <<" ">>, <<",">>)
    @@ "RUB" :> CurrencyConfig("RUB", <<"U+20BD">>, 2, "after", <<" ">>, <<",">>)
    @@ "BRL" :> CurrencyConfig("BRL", <<"R", "$">>, 2, "before", <<".">>, <<",">>)
    @@ "MXN" :> CurrencyConfig("MXN", <<"$">>, 2, "before", <<",">>, <<".">>)
    @@ "ZAR" :> CurrencyConfig("ZAR", <<"R">>, 2, "before", <<" ">>, <<",">>)
    @@ "SGD" :> CurrencyConfig("SGD", <<"S", "$">>, 2, "before", <<",">>, <<".">>)
    @@ "HKD" :> CurrencyConfig("HKD", <<"H", "K", "$">>, 2, "before", <<",">>, <<".">>)
    @@ "TWD" :> CurrencyConfig("TWD", <<"N", "T", "$">>, 0, "before", <<",">>, <<".">>)
    @@ "THB" :> CurrencyConfig("THB", <<"U+0E3F">>, 2, "before", <<",">>, <<".">>)
    @@ "MYR" :> CurrencyConfig("MYR", <<"R", "M">>, 2, "before", <<",">>, <<".">>)
    @@ "PHP" :> CurrencyConfig("PHP", <<"U+20B1">>, 2, "before", <<",">>, <<".">>)
    @@ "VND" :> CurrencyConfig("VND", <<"U+20AB">>, 0, "after", <<".">>, <<",">>)
    @@ "AED" :> CurrencyConfig("AED", <<"A", "E", "D">>, 2, "before", <<",">>, <<".">>)
    @@ "SAR" :> CurrencyConfig("SAR", <<"S", "R">>, 2, "before", <<",">>, <<".">>)
    @@ "EGP" :> CurrencyConfig("EGP", <<"E", "U+00A3">>, 2, "before", <<",">>, <<".">>)
    @@ "ILS" :> CurrencyConfig("ILS", <<"U+20AA">>, 2, "before", <<",">>, <<".">>)
    @@ "TRY" :> CurrencyConfig("TRY", <<"U+20BA">>, 2, "before", <<".">>, <<",">>)

\* how a template literal, String.prototype.replace and new RegExp render undefined
Undefined == <<"u", "n", "d", "e", "f", "i", "n", "e", "d">>

\* What CURRENCIES[name] is for a name CURRENCIES inherits from Object.prototype:
\* an object that has none of the properties of a CurrencyConfig.  Every one of
\* them reads as undefined; toFixed(undefined) is toFixed(0) and undefined > 0
\* is false, which is what decimals 0 gives.
InheritedProperty ==
    CurrencyConfig("undefined", Undefined, 0, "undefined", Undefined, Undefined)

\* CURRENCIES[currencyCode] || CURRENCIES.USD: the property read follows the
\* prototype chain, and what it finds there is truthy
ConfigOf(currencyCode) ==
    IF currencyCode \in DOMAIN CURRENCIES THEN CURRENCIES[currencyCode]
    ELSE IF currencyCode \in ObjectPrototype THEN InheritedProperty
    ELSE CURRENCIES["USD"]

DigitChars == <<"0", "1", "2", "3", "4", "5", "6", "7", "8", "9">>
IsDigit(c) == \E d \in 1..Len(DigitChars) : DigitChars[d] = c
DigitValue(c) == (CHOOSE d \in 1..Len(DigitChars) : DigitChars[d] = c) - 1

RECURSIVE Pow10(_)
Pow10(n) == IF n = 0 THEN 1 ELSE 10 * Pow10(n - 1)

\* the decimal digits of the natural number n
RECURSIVE Digits(_)
Digits(n) ==
    IF n < 10 THEN <<DigitChars[n + 1]>>
    ELSE Append(Digits(n \div 10), DigitChars[(n % 10) + 1])

\* the last `width` decimal digits of n, with leading zeros
RECURSIVE Padded(_, _)
Padded(n, width) ==
    IF width = 0 THEN <<>>
    ELSE Append(Padded(n \div 10, width - 1), DigitChars[(n % 10) + 1])

\* Number.prototype.toFixed for an amount of hundredths and decimals <= 2:
\* rounds half away from zero, keeps the sign
toFixed(amount, decimals) ==
    LET abs == IF amount < 0 THEN 0 - amount ELSE amount
        unit == Pow10(2 - decimals)
        scaled == (abs + (unit \div 2)) \div unit
        sign == IF amount < 0 THEN <<"-">> ELSE <<>>
    IN  sign \o Digits(scaled \div Pow10(decimals))
             \o (IF decimals > 0 THEN <<".">> \o Padded(scaled % Pow10(decimals), decimals)
                 ELSE <<>>)

\* String.prototype.indexOf, 0 when the pattern does not occur
IndexOf(str, pattern) ==
    LET hits == {i \in 1..(Len(str) - Len(pattern) + 1) :
                    SubSeq(str, i, i + Len(pattern) - 1) = pattern}
    IN  IF hits = {} THEN 0 ELSE CHOOSE i \in hits : \A j \in hits : i <= j

\* str.replace(pattern, replacement) with a string pattern: the first occurrence
replace(str, pattern, replacement) ==
    LET i == IndexOf(str, pattern)
    IN  IF i = 0 THEN str
        ELSE SubSeq(str, 1, i - 1) \o replacement \o SubSeq(str, i + Len(pattern), Len(str))

\* str.replace(new RegExp('\\' + pattern, 'g'), ''): every occurrence of the
\* pattern, found from left to right
RECURSIVE removeAll(_, _)
removeAll(str, pattern) ==
    LET i == IndexOf(str, pattern)
    IN  IF i = 0 THEN str
        ELSE SubSeq(str, 1, i - 1) \o removeAll(SubSeq(str, i + Len(pattern), Len(str)), pattern)

RECURSIVE trimStart(_)
trimStart(str) ==
    IF str # <<>> /\ Head(str) = " " THEN trimStart(Tail(str)) ELSE str

RECURSIVE trimEnd(_)
trimEnd(str) ==
    IF str # <<>> /\ str[Len(str)] = " " THEN trimEnd(SubSeq(str, 1, Len(str) - 1)) ELSE str

trim(str) == trimEnd(trimStart(str))

\* str.split(c) for a character c
RECURSIVE split(_, _)
split(str, c) ==
    LET i == IndexOf(str, <<c>>)
    IN  IF i = 0 THEN <<str>>
        ELSE <<SubSeq(str, 1, i - 1)>> \o split(SubSeq(str, i + 1, Len(str)), c)

\* the number of digits str has from position i on, up to the first non-digit
RECURSIVE DigitRun(_, _)
DigitRun(str, i) ==
    IF i <= Len(str) /\ IsDigit(str[i]) THEN 1 + DigitRun(str, i + 1) ELSE 0

\* str.replace(/\B(?=(\d{n})+(?!\d))/g, separator): the pattern matches the
\* empty string after position p when p is not a word boundary (the characters
\* on both sides are digits) and a positive multiple of n digits follows
RECURSIVE insertSeparators(_, _, _, _)
insertSeparators(str, n, separator, p) ==
    IF p > Len(str) THEN <<>>
    ELSE LET run == DigitRun(str, p + 1)
             matches == IsDigit(str[p]) /\ run > 0 /\ run % n = 0
         IN  <<str[p]>> \o (IF matches THEN separator ELSE <<>>)
                        \o insertSeparators(str, n, separator, p + 1)

\* formatNumber that groups INR like every other code
formatNumberMut(amount, config) ==
    LET parts == split(toFixed(amount, config.decimals), ".")
        integerPart == parts[1]
        formattedInteger == insertSeparators(integerPart, 3, config.thousandsSeparator, 1)
    IN  IF config.decimals > 0 /\ Len(parts) > 1 /\ parts[2] # <<>>
        THEN formattedInteger \o config.decimalSeparator \o parts[2]
        ELSE formattedInteger

formatNumber(amount, config) ==
    LET parts == split(toFixed(amount, config.decimals), ".")
        integerPart == parts[1]
        hasDecimalPart == config.decimals > 0 /\ Len(parts) > 1 /\ parts[2] # <<>>
    IN  IF config.code = "INR"
        THEN LET lastThree == SubSeq(integerPart, Len(integerPart) - 2, Len(integerPart))
                 remaining == SubSeq(integerPart, 1, Len(integerPart) - 3)
                 formattedRemaining == insertSeparators(remaining, 2, <<",">>, 1)
                 grouped == IF Len(integerPart) > 3
                            THEN formattedRemaining \o <<",">> \o lastThree
                            ELSE integerPart
             IN  IF hasDecimalPart THEN grouped \o config.decimalSeparator \o parts[2]
                 ELSE grouped
        ELSE \* the IDR branch and the standard branch are the same code
             LET formattedInteger ==
                     insertSeparators(integerPart, 3, config.thousandsSeparator, 1)
             IN  IF hasDecimalPart THEN formattedInteger \o config.decimalSeparator \o parts[2]
                 ELSE formattedInteger

\* format that puts a space between the symbol and the number
formatMut(amount, currencyCode) ==
    LET config == ConfigOf(currencyCode)
        formattedNumber == formatNumber(amount, config)
    IN  IF config.symbolPosition = "before"
        THEN config.symbol \o <<" ">> \o formattedNumber
        ELSE formattedNumber \o <<" ">> \o config.symbol

format(amount, currencyCode) ==
    LET config == ConfigOf(currencyCode)
        formattedNumber == formatNumber(amount, config)
    IN  IF config.symbolPosition = "before"
        THEN config.symbol \o formattedNumber
        ELSE formattedNumber \o <<" ">> \o config.symbol

\* formatWithoutSymbol that always formats as USD
formatWithoutSymbolMut(amount, currencyCode) == formatNumber(amount, CURRENCIES["USD"])

formatWithoutSymbol(amount, currencyCode) == formatNumber(amount, ConfigOf(currencyCode))

getSymbol(currencyCode) == ConfigOf(currencyCode).symbol

getCurrency(currencyCode) == ConfigOf(currencyCode)

\* currencyCode in CURRENCIES: the in operator follows the prototype chain
isValidCurrency(currencyCode) ==
    currencyCode \in DOMAIN CURRENCIES \/ currencyCode \in ObjectPrototype

\* numbers as parse returns them; an infinity carries its sign in m
NaN == [nan |-> TRUE, inf |-> FALSE, m |-> 0, e |-> 0]
Zero == [nan |-> FALSE, inf |-> FALSE, m |-> 0, e |-> 0]
Infinity == [nan |-> FALSE, inf |-> TRUE, m |-> 1, e |-> 0]

RECURSIVE Normal(_, _)
Normal(m, e) ==
    IF e > 0 /\ m % 10 = 0 THEN Normal(m \div 10, e - 1)
    ELSE [nan |-> FALSE, inf |-> FALSE, m |-> m, e |-> e]

RECURSIVE NumberOf(_)
NumberOf(digits) ==
    IF digits = <<>> THEN 0
    ELSE 10 * NumberOf(SubSeq(digits, 1, Len(digits) - 1)) + DigitValue(digits[Len(digits)])

\* A value of 10^309 or more is beyond the largest double and reads as Infinity.
Magnitude(mantissa, shift) ==
    IF mantissa = 0 THEN Zero
    ELSE IF Len(Digits(mantissa)) + shift > 309 THEN Infinity
    ELSE IF shift >= 0 THEN Normal(mantissa * Pow10(shift), 0)
    ELSE Normal(mantissa, 0 - shift)

\* the digits that body has from position `from` on, as a number
ExponentDigits(body, from) ==
    NumberOf(SubSeq(body, from, from + DigitRun(body, from) - 1))

\* the exponent part e [sign] digits at position expAt of body; without a
\* digit it is not read
Exponent(body, expAt) ==
    IF Len(body) >= expAt /\ body[expAt] \in {"e", "E"}
    THEN IF Len(body) > expAt /\ body[expAt + 1] = "-"
         THEN 0 - ExponentDigits(body, expAt + 2)
         ELSE IF Len(body) > expAt /\ body[expAt + 1] = "+"
         THEN ExponentDigits(body, expAt + 2)
         ELSE ExponentDigits(body, expAt + 1)
    ELSE 0

\* digits [. digits] or . digits at the head of body, and the exponent after
\* them; NaN when there is no digit
Decimal(body, intLen, fracLen, expAt) ==
    IF intLen = 0 /\ fracLen = 0 THEN NaN
    ELSE Magnitude(NumberOf(SubSeq(body, 1, intLen)
                               \o SubSeq(body, intLen + 2, intLen + 1 + fracLen)),
                   Exponent(body, expAt) - fracLen)

Unsigned(body, intLen) ==
    IF Len(body) >= 8 /\ SubSeq(body, 1, 8) = <<"I", "n", "f", "i", "n", "i", "t", "y">>
    THEN Infinity
    ELSE IF Len(body) > intLen /\ body[intLen + 1] = "."
    THEN Decimal(body, intLen, DigitRun(body, intLen + 2),
                 intLen + DigitRun(body, intLen + 2) + 2)
    ELSE Decimal(body, intLen, 0, intLen + 1)

Signed(s) ==
    IF s # <<>> /\ s[1] = "-"
    THEN [Unsigned(Tail(s), DigitRun(Tail(s), 1)) EXCEPT !.m = 0 - @]
    ELSE IF s # <<>> /\ s[1] = "+" THEN Unsigned(Tail(s), DigitRun(Tail(s), 1))
    ELSE Unsigned(s, DigitRun(s, 1))

\* parseFloat: leading white space, an optional sign, then the longest prefix
\* that is Infinity or digits [. digits] or . digits, each of the last two with
\* an optional exponent e [sign] digits; NaN when there is none
parseFloat(str) == Signed(trimStart(str))

\* lines 430-441: the special handling of IDR
WithoutPoints(config, pointed, parts) ==
    IF config.code = "IDR"
    THEN IF Len(parts) = 2
         THEN removeAll(parts[1], <<".">>) \o <<".">> \o parts[2]
         ELSE removeAll(pointed, <<".">>)
    ELSE pointed

\* lines 425-427: the decimal separator becomes a point
Pointed(config, noThousands) ==
    IF config.decimalSeparator # <<".">>
    THEN replace(noThousands, config.decimalSeparator, <<".">>)
    ELSE noThousands

\* lines 420-422: the thousands separators go, unless they are points
WithoutThousands(config, noSymbol) ==
    IF config.thousandsSeparator # <<".">>
    THEN removeAll(noSymbol, config.thousandsSeparator)
    ELSE noSymbol

Separated(config, pointed) == WithoutPoints(config, pointed, split(pointed, ","))

Cleaned(config, formattedAmount) ==
    Separated(config,
              Pointed(config,
                      WithoutThousands(config,
                                       trim(replace(formattedAmount, config.symbol, <<>>)))))

\* what parse hands to parseFloat
cleaned(formattedAmount, currencyCode) == Cleaned(ConfigOf(currencyCode), formattedAmount)

\* number || 0: NaN and 0 are falsy
OrZero(number) == IF number.nan \/ number.m = 0 THEN Zero ELSE number

\* parseFloat(cleaned) || 0
parse(formattedAmount, currencyCode) ==
    OrZero(parseFloat(cleaned(formattedAmount, currencyCode)))

(***************************************************************************)
(* NumberFormatter (src/utils/numberFormatter.ts).                         *)
(*                                                                         *)
(* A value is m * 1000^k, kept as [m |-> m, k |-> k] with k >= -1: 1.5e12  *)
(* is [m |-> 1500, k |-> 3] and 999.5 is [m |-> 999500, k |-> -1].  A      *)
(* quotient value / threshold is the fraction num / den, den a power of    *)
(* 1000.  The decimal rounding of toFixed is that of the exact quotient;   *)
(* the values of the model have no quotient that lies halfway between two  *)
(* results unless it is a binary fraction (x.25, x.5, x.75), where the     *)
(* double is the exact quotient and toFixed takes the larger neighbour.    *)
(***************************************************************************)
Value(m, k) == [m |-> m, k |-> k]

RECURSIVE Pow1000(_)
Pow1000(n) == IF n = 0 THEN 1 ELSE 1000 * Pow1000(n - 1)

Abs(n) == IF n < 0 THEN 0 - n ELSE n

\* the thresholds as powers of 1000: 1e12 is 1000^4
abbreviations ==
    <<[threshold |-> 4, suffix |-> "T", decimals |-> 1],
      [threshold |-> 3, suffix |-> "B", decimals |-> 1],
      [threshold |-> 2, suffix |-> "M", decimals |-> 1],
      [threshold |-> 1, suffix |-> "K", decimals |-> 1]>>

\* Math.abs(value) >= 1000^j; an m of the model is below 1000^4
AtLeast(value, j) ==
    LET d == j - value.k
    IN  IF d <= 0 THEN value.m # 0
        ELSE IF d > 3 THEN FALSE
        ELSE Abs(value.m) >= Pow1000(d)

\* value / 1000^j
Quotient(value, j) ==
    LET d == j - value.k
    IN  IF d <= 0 THEN [num |-> value.m * Pow1000(0 - d), den |-> 1]
        ELSE [num |-> value.m, den |-> Pow1000(d)]

\* q % 1 === 0
IsWhole(q) == q.num % q.den = 0

\* Math.floor(q)
Floor(q) == q.num \div q.den

\* Math.round(q): the integer nearest to q, the larger one of two
round(q) == Floor(q) + (IF 2 * (q.num % q.den) >= q.den THEN 1 ELSE 0)

\* an integer in a template literal
IntegerString(n) == (IF n < 0 THEN <<"-">> ELSE <<>>) \o Digits(Abs(n))

\* q.toFixed(decimals) for decimals >= 1: rounds the magnitude to the nearest
\* multiple of 10^-decimals, the larger one of two, and keeps the sign
quotientToFixed(q, decimals) ==
    LET a == Abs(q.num)
        whole == a \div q.den
        rest == a % q.den
        unit == q.den \div Pow10(decimals)
        kept == IF q.den = 1 THEN 0 ELSE rest \div unit
        up == IF q.den # 1 /\ 2 * (rest % unit) >= unit THEN 1 ELSE 0
        scaled == whole * Pow10(decimals) + kept + up
    IN  (IF q.num < 0 THEN <<"-">> ELSE <<>>)
            \o Digits(scaled \div Pow10(decimals))
            \o <<".">> \o Padded(scaled % Pow10(decimals), decimals)

RECURSIVE trimZeros(_)
trimZeros(digits) ==
    IF digits # <<>> /\ digits[Len(digits)] = "0"
    THEN trimZeros(SubSeq(digits, 1, Len(digits) - 1))
    ELSE digits

\* value.toString() for a value below 1e21 with finitely many decimal digits
toString(value) ==
    LET q == Quotient(value, 0)
        a == Abs(q.num)
        fraction == IF q.den = 1 THEN <<>>
                    ELSE trimZeros(Padded(a % q.den, Len(Digits(q.den)) - 1))
    IN  (IF q.num < 0 THEN <<"-">> ELSE <<>>)
            \o Digits(a \div q.den)
            \o (IF fraction = <<>> THEN <<>> ELSE <<".">> \o fraction)

\* the first entry of abbreviations that Math.abs(value) reaches, 0 if none
FirstReached(value) ==
    LET hits == {i \in 1..Len(abbreviations) : AtLeast(value, abbreviations[i].threshold)}
    IN  IF hits = {} THEN 0 ELSE CHOOSE i \in hits : \A j \in hits : i <= j

\* abbreviate that shows the decimal place always
abbreviateMut(value, forceDecimals) ==
    IF ~AtLeast(value, 1) THEN quotientToFixed(Quotient(value, 0), 1)
    ELSE LET abbrev == abbreviations[FirstReached(value)]
         IN  quotientToFixed(Quotient(value, abbrev.threshold), abbrev.decimals)
                \o <<abbrev.suffix>>

abbreviate(value, forceDecimals) ==
    IF ~AtLeast(value, 1)
    THEN IF forceDecimals THEN quotientToFixed(Quotient(value, 0), 1) ELSE toString(value)
    ELSE LET abbrev == abbreviations[FirstReached(value)]
             abbreviated == Quotient(value, abbrev.threshold)
             showDecimals == forceDecimals \/ (~IsWhole(abbreviated) /\ Floor(abbreviated) < 100)
         IN  IF showDecimals
             THEN quotientToFixed(abbreviated, abbrev.decimals) \o <<abbrev.suffix>>
             ELSE IntegerString(round(abbreviated)) \o <<abbrev.suffix>>

abbreviateCurrency(value, currencySymbol, forceDecimals) ==
    currencySymbol \o abbreviate(value, forceDecimals)

\* formatForChart with the rule of abbreviate
formatForChartMut(value, currencySymbol) == currencySymbol \o abbreviate(value, FALSE)

formatForChart(value, currencySymbol) ==
    IF value.m = 0 THEN currencySymbol \o <<"0">>
    ELSE IF ~AtLeast(value, 1)
    THEN currencySymbol \o IntegerString(round(Quotient(value, 0)))
    ELSE LET abbrev == abbreviations[FirstReached(value)]
             abbreviated == Quotient(value, abbrev.threshold)
             formatted ==
                 IF Floor(abbreviated) >= 100
                 THEN IntegerString(round(abbreviated)) \o <<abbrev.suffix>>
                 ELSE IF Floor(abbreviated) >= 10
                 THEN IF IsWhole(abbreviated)
                      THEN IntegerString(round(abbreviated)) \o <<abbrev.suffix>>
                      ELSE quotientToFixed(abbreviated, 1) \o <<abbrev.suffix>>
                 ELSE quotientToFixed(abbreviated, 1) \o <<abbrev.suffix>>
         IN  currencySymbol \o formatted

\* the number c * 10^x of a chart range, c without a factor 10
RECURSIVE Scientific(_, _)
Scientific(c, x) ==
    IF c # 0 /\ c % 10 = 0 THEN Scientific(c \div 10, x + 1)
    ELSE [nan |-> FALSE, c |-> c, x |-> x]

NotANumber == [nan |-> TRUE, c |-> 0, x |-> 0]

\* the bands of suggestChartRange: niceMax and ten times the step
Bands == <<[upTo |-> 1, niceMax |-> 1, step |-> 2], [upTo |-> 2, niceMax |-> 2, step |-> 5],
           [upTo |-> 5, niceMax |-> 5, step |-> 10], [upTo |-> 10, niceMax |-> 10, step |-> 20]>>

\* suggestChartRange that pads nothing
suggestChartRangeMut(maxValue) ==
    IF maxValue.m <= 0 THEN [min |-> 0, max |-> Scientific(100, 0), step |-> Scientific(20, 0)]
    ELSE LET exponent == Len(Digits(maxValue.m)) - 1
             hits == {i \in 1..Len(Bands) : maxValue.m <= Bands[i].upTo * Pow10(exponent)}
             band == Bands[CHOOSE i \in hits : \A j \in hits : i <= j]
         IN  [min |-> 0, max |-> Scientific(band.niceMax, exponent + 3 * maxValue.k),
              step |-> Scientific(band.step, exponent + 3 * maxValue.k - 1)]

\* paddedMax = maxValue * 1.2 is 12 * m * 10^(3k - 1); Math.log10 of a
\* negative number is NaN, and so is everything computed from it
suggestChartRange(maxValue) ==
    IF maxValue.m = 0 THEN [min |-> 0, max |-> Scientific(100, 0), step |-> Scientific(20, 0)]
    ELSE IF maxValue.m < 0 THEN [min |-> 0, max |-> NotANumber, step |-> NotANumber]
    ELSE LET paddedMax == 12 * maxValue.m
             \* Math.floor(Math.log10(paddedMax)), before the factor 10^(3k - 1)
             exponent == Len(Digits(paddedMax)) - 1
             magnitude == exponent + 3 * maxValue.k - 1
             \* normalizedMax <= upTo, normalizedMax being paddedMax / 10^exponent
             hits == {i \in 1..Len(Bands) : paddedMax <= Bands[i].upTo * Pow10(exponent)}
             band == Bands[CHOOSE i \in hits : \A j \in hits : i <= j]
         IN  [min |-> 0, max |-> Scientific(band.niceMax, magnitude),
              step |-> Scientific(band.step, magnitude - 1)]

(***************************************************************************)
(* The calls as actions.  Each action runs one whole call on the current   *)
(* storage.                                                                *)
(*                                                                         *)
(* The properties speak about single calls: what a call returned and what  *)
(* it changed.  A call is made either unobserved (obs stays NoCall) or     *)
(* observed: obs then records the call, its arguments, its outcome and the *)
(* storage before it.  No method reads obs, so every storage the program   *)
(* can reach is reached by unobserved calls, and a behaviour ends with the *)
(* observed call.  The one continuation is the follow-up of an observed    *)
(* successful addSpendingEntry: the deletion of the entry it stored or an  *)
(* update of that entry's amount, which is observed together with the      *)
(* storage before the add (obs.origin).                                    *)
(***************************************************************************)
Outcome(s) == IF s.err # NoErr THEN s.err ELSE s.ret

InBounds(accounts) ==
    \A i \in 1..Len(accounts) : accounts[i].balance \in (0 - MaxDebt)..MaxBalance

NotFresh == [fresh |-> FALSE]

NoCall == [op |-> "none", args |-> <<>>, failAt |-> 0, result |-> "void",
           pre |-> <<>>, origin |-> NotFresh]

Quiet == obs = NoCall

JustAdded == obs.op = "addSpendingEntry" /\ obs.result = "entry"

\* the storage before the observed add
Origin ==
    IF JustAdded
    THEN [fresh |-> TRUE, savings |-> obs.pre.savings, spending |-> obs.pre.spending]
    ELSE NotFresh

Commit(op, args, failAt, s, observe) ==
    /\ InBounds(s.savings)
    /\ failAt = 0 \/ (s.err \in PersistenceErrors /\ faults < MaxFaults)
    /\ savings' = s.savings
    /\ spending' = s.spending
    /\ faults' = IF s.err \in PersistenceErrors THEN faults + 1 ELSE faults
    /\ obs' = IF observe
              THEN [op |-> op, args |-> args, failAt |-> failAt, result |-> Outcome(s),
                    pre |-> [savings |-> savings, spending |-> spending],
                    origin |-> Origin]
              ELSE NoCall
    /\ UNCHANGED <<clock, base, settings, investments>>

EntryInputs(Amts, Rfs) ==
    {e \in [type : Types, amount : Amts, accountId : Rfs, transferToAccountId : Rfs \cup {NoId}] :
        e.type = "expense" => e.transferToAccountId = NoId}

\* the entries the data model allows: an expense on an account, a transfer
\* between two distinct accounts
ValidEntry(e) ==
    /\ e.amount > 0
    /\ e.accountId # NoId
    /\ e.type = "transfer" => e.transferToAccountId \notin {NoId, e.accountId}

\* updates that pass the amount alone (the form passes every field)
AmountOnly(Amts) == {[amount |-> a] : a \in Amts}

\* Date.now() advances
Tick ==
    /\ clock < MaxClock
    /\ clock' = clock + 1
    /\ UNCHANGED <<savings, spending, settings, investments, faults, base, obs>>

AddSpendingEntry(entry, failAt, observe, cap) ==
    /\ Len(spending) < cap
    /\ Commit("addSpendingEntry", [entry |-> entry], failAt,
              addSpendingEntry(Store(savings, spending), entry, clock, failAt), observe)

UpdateSpendingEntry(id, updates, failAt, observe) ==
    /\ Commit("updateSpendingEntry", [id |-> id, updates |-> updates], failAt,
              updateSpendingEntry(Store(savings, spending), id, updates, failAt), observe)

DeleteSpendingEntry(id, failAt, observe) ==
    /\ Commit("deleteSpendingEntry", [id |-> id], failAt,
              deleteSpendingEntry(Store(savings, spending), id, failAt), observe)

AddSavingsAccount(balance, failAt, observe) ==
    /\ Len(savings) < MaxAccounts
    /\ Commit("addSavingsAccount", [balance |-> balance], failAt,
              addSavingsAccount(Store(savings, spending), balance, clock, failAt), observe)

UpdateSavingsAccount(id, balance, failAt, observe) ==
    /\ Commit("updateSavingsAccount", [id |-> id, balance |-> balance], failAt,
              updateSavingsAccount(Store(savings, spending), id, balance, failAt), observe)

DeleteSavingsAccount(id, failAt, observe) ==
    /\ Commit("deleteSavingsAccount", [id |-> id], failAt,
              deleteSavingsAccount(Store(savings, spending), id, failAt), observe)

TransferBetweenAccounts(fromId, toId, amount, failAt, observe) ==
    /\ Commit("transferBetweenAccounts", [fromId |-> fromId, toId |-> toId, amount |-> amount],
              failAt,
              transferBetweenAccounts(Store(savings, spending), fromId, toId, amount, failAt),
              observe)

\* an empty localStorage
Init ==
    /\ savings = <<>>
    /\ spending = <<>>
    /\ settings = NoSettings
    /\ investments = <<>>
    /\ clock = 1
    /\ faults = 0
    /\ base = <<>>
    /\ obs = NoCall

\* two accounts, stored by an earlier session under the ids 1 and 2, and no
\* spending entry yet
InitLedger ==
    /\ \E b1 \in Balances, b2 \in Balances :
          savings = <<[id |-> 1, balance |-> b1], [id |-> 2, balance |-> b2]>>
    /\ spending = <<>>
    /\ settings = NoSettings
    /\ investments = <<>>
    /\ clock = 1
    /\ faults = 0
    /\ base = savings
    /\ obs = NoCall

\* the sets the arguments of the calls are drawn from
AnyEntry == EntryInputs(Amounts, Refs)
AnyUpdate == AnyEntry \cup AmountOnly(Amounts)
PositiveEntry == EntryInputs(PositiveAmounts, Refs)
PositiveUpdate == PositiveEntry \cup AmountOnly(PositiveAmounts)
LedgerEntry == {e \in EntryInputs(PositiveAmounts, Ids) : ValidEntry(e)}
LedgerUpdate == LedgerEntry \cup AmountOnly(PositiveAmounts)
NoFault == {0}
AllFaults == 0..MaxWrites

EntryCalls(Entries, Updates, Fails, cap) ==
    \/ \E entry \in Entries, failAt \in Fails, observe \in BOOLEAN :
          AddSpendingEntry(entry, failAt, observe, cap)
    \/ \E id \in Ids, updates \in Updates, failAt \in Fails, observe \in BOOLEAN :
          UpdateSpendingEntry(id, updates, failAt, observe)
    \/ \E id \in Ids, failAt \in Fails, observe \in BOOLEAN :
          DeleteSpendingEntry(id, failAt, observe)

AccountCalls(Amts, Fails) ==
    \/ \E balance \in Balances, failAt \in Fails, observe \in BOOLEAN :
          AddSavingsAccount(balance, failAt, observe)
    \/ \E id \in Ids, balance \in Balances, failAt \in Fails, observe \in BOOLEAN :
          UpdateSavingsAccount(id, balance, failAt, observe)
    \/ \E id \in Ids, failAt \in Fails, observe \in BOOLEAN :
          DeleteSavingsAccount(id, failAt, observe)
    \/ \E fromId \in Refs, toId \in Refs, amount \in Amts, failAt \in Fails, observe \in BOOLEAN :
          TransferBetweenAccounts(fromId, toId, amount, failAt, observe)

\* the observed follow-up on the entry the observed addSpendingEntry stored
FollowUp(Amts, Fails) ==
    /\ JustAdded
    /\ LET id == spending[Len(spending)].id
       IN  \/ \E updates \in AmountOnly(Amts), failAt \in Fails :
                 UpdateSpendingEntry(id, updates, failAt, TRUE)
           \/ \E failAt \in Fails : DeleteSpendingEntry(id, failAt, TRUE)

Next ==
    \/ Quiet /\ Tick
    \/ Quiet /\ EntryCalls(AnyEntry, AnyUpdate, NoFault, MaxEntries)
    \/ Quiet /\ AccountCalls(Amounts, NoFault)
    \/ FollowUp(Amounts, NoFault)

NextLedger ==
    \/ Quiet /\ Tick
    \/ Quiet /\ EntryCalls(LedgerEntry, LedgerUpdate, NoFault, MaxLedgerEntries)
    \/ FollowUp(PositiveAmounts, NoFault)

NextPositive ==
    \/ Quiet /\ Tick
    \/ Quiet /\ EntryCalls(PositiveEntry, PositiveUpdate, NoFault, MaxEntries)
    \/ Quiet /\ AccountCalls(PositiveAmounts, NoFault)
    \/ FollowUp(PositiveAmounts, NoFault)

NextFaulty ==
    \/ Quiet /\ Tick
    \/ Quiet /\ EntryCalls(PositiveEntry, PositiveUpdate, AllFaults, MaxEntries)
    \/ Quiet /\ AccountCalls(PositiveAmounts, AllFaults)
    \/ FollowUp(PositiveAmounts, AllFaults)

\* every call of the DataManager, any amount, storage writes succeed
Spec == Init /\ [][Next]_vars

\* spending-entry calls with valid entries over two existing accounts
SpecLedger == InitLedger /\ [][NextLedger]_vars

\* every call of the DataManager, amounts greater than zero
SpecPositive == Init /\ [][NextPositive]_vars

\* every call of the DataManager, amounts greater than zero, and at most
\* MaxFaults storage writes throw
SpecFaulty == Init /\ [][NextFaulty]_vars

(***************************************************************************)
(* Queries and settings calls.  A query changes no storage; when observed  *)
(* it is recorded in obs with its result.                                  *)
(***************************************************************************)
Observe(op, args, result, pre, origin) ==
    obs' = [op |-> op, args |-> args, failAt |-> 0, result |-> result,
            pre |-> pre, origin |-> origin]

GetMonthlySpending(year, month) ==
    /\ Observe("getMonthlySpending", [year |-> year, month |-> month],
               getMonthlySpending(spending, year, month),
               [savings |-> savings, spending |-> spending], NotFresh)
    /\ UNCHANGED <<savings, spending, settings, investments, clock, faults, base>>

GetSpendingByCategory(startDate, endDate) ==
    /\ Observe("getSpendingByCategory", [startDate |-> startDate, endDate |-> endDate],
               getSpendingByCategory(spending, startDate, endDate),
               [savings |-> savings, spending |-> spending], NotFresh)
    /\ UNCHANGED <<savings, spending, settings, investments, clock, faults, base>>

\* entries as the analytics read them: stored without an account
Dates == 0..MaxDate
AnalyticsCategories == {"Food", "Transport"}
AnalyticsEntry ==
    [type : Types, amount : PositiveAmounts, accountId : {NoId}, transferToAccountId : {NoId},
     date : Dates, category : AnalyticsCategories]

NextAnalytics ==
    \/ Quiet /\ \E entry \in AnalyticsEntry :
                   AddSpendingEntry(entry, 0, FALSE, MaxAnalyticsEntries)
    \/ Quiet /\ \E id \in Ids : DeleteSpendingEntry(id, 0, FALSE)
    \/ Quiet /\ \E date \in Dates :
                   GetMonthlySpending(getFullYear(date), getMonth(date))
    \/ Quiet /\ \E startDate \in Dates, endDate \in Dates :
                   GetSpendingByCategory(startDate, endDate)

\* entries stored and deleted, and the two analytics queries
SpecAnalytics == Init /\ [][NextAnalytics]_vars

UpdateSettings(updates, observe) ==
    /\ settings' = updateSettings(settings, updates)
    /\ IF observe
       THEN Observe("updateSettings", [updates |-> updates], settings',
                    [settings |-> settings], NotFresh)
       ELSE obs' = NoCall
    /\ UNCHANGED <<savings, spending, investments, clock, faults, base>>

\* getSettings, observed; after an observed updateSettings it records that call
GetSettings ==
    /\ obs.op \in {"none", "updateSettings"}
    /\ Observe("getSettings", <<>>, getSettings(settings), [settings |-> settings],
               IF obs.op = "updateSettings"
               THEN [fresh |-> TRUE, updates |-> obs.args.updates, pre |-> obs.pre]
               ELSE NotFresh)
    /\ UNCHANGED <<savings, spending, settings, investments, clock, faults, base>>

CategoryNames == defaultCategories \cup {"Pets"} \cup ObjectPrototype
CustomColors == {"#123456", Gray}
ColorUpdates == UNION {[S -> CustomColors] : S \in SUBSET CategoryNames}
SettingsUpdates ==
    {[categories |-> cs] : cs \in SUBSET CategoryNames}
    \cup {[categoryColors |-> cc] : cc \in ColorUpdates}
    \cup {[categories |-> cs, categoryColors |-> cc] :
              cs \in SUBSET CategoryNames, cc \in ColorUpdates}

NextSettings ==
    \/ Quiet /\ \E updates \in SettingsUpdates, observe \in BOOLEAN :
                   UpdateSettings(updates, observe)
    \/ GetSettings

\* the settings calls
SpecSettings == Init /\ [][NextSettings]_vars

(***************************************************************************)
(* Investment calls.  A call works on the whole localStorage and writes    *)
(* 'investments' back; observed, it is recorded with the value returned    *)
(* and the storage before it.                                              *)
(***************************************************************************)
Storage ==
    [savings |-> savings, spending |-> spending, settings |-> settings,
     investments |-> investments]

\* saveInvestments that writes the key 'spending'
saveInvestmentsMut(storage, data) == [storage EXCEPT !.spending = data]

\* this.saveToStorage('investments', data)
saveInvestments(storage, data) == [storage EXCEPT !.investments = data]

InvestmentCall(op, args, storage, ret, observe) ==
    /\ savings' = storage.savings
    /\ spending' = storage.spending
    /\ settings' = storage.settings
    /\ investments' = storage.investments
    /\ IF observe
       THEN Observe(op, args, ret, Storage, NotFresh)
       ELSE obs' = NoCall
    /\ UNCHANGED <<clock, faults, base>>

AddInvestment(investment, observe, cap) ==
    /\ Len(investments) < cap
    /\ InvestmentCall("addInvestment", [investment |-> investment],
                      saveInvestments(Storage, addInvestment(investments, investment, clock)),
                      "investment", observe)

UpdateInvestment(id, updates, observe) ==
    LET r == updateInvestment(investments, id, updates)
    IN  InvestmentCall("updateInvestment", [id |-> id, updates |-> updates],
                       IF r.ret = "none" THEN Storage
                       ELSE saveInvestments(Storage, r.investments),
                       r.ret, observe)

DeleteInvestment(id, observe) ==
    LET r == deleteInvestment(investments, id)
    IN  InvestmentCall("deleteInvestment", [id |-> id],
                       IF r.ret = "false" THEN Storage
                       ELSE saveInvestments(Storage, r.investments),
                       r.ret, observe)

GetTotalInvestments ==
    /\ Observe("getTotalInvestments", <<>>, getTotalInvestments(investments),
               [investments |-> investments], NotFresh)
    /\ UNCHANGED <<savings, spending, settings, investments, clock, faults, base>>

InvestmentInputs == [amount : PositiveAmounts]

InvestmentCalls(cap) ==
    \/ \E investment \in InvestmentInputs, observe \in BOOLEAN :
          AddInvestment(investment, observe, cap)
    \/ \E id \in Ids, updates \in InvestmentInputs, observe \in BOOLEAN :
          UpdateInvestment(id, updates, observe)
    \/ \E id \in Ids, observe \in BOOLEAN : DeleteInvestment(id, observe)

NextInvestments ==
    \/ Quiet /\ Tick
    \/ Quiet /\ InvestmentCalls(MaxInvestments)
    \/ Quiet /\ GetTotalInvestments

\* investments stored, changed and deleted, and their total queried
SpecInvestments == Init /\ [][NextInvestments]_vars

FrameSettings == {[categories |-> {"Pets"}], [categoryColors |-> [c \in {"Food"} |-> Gray]]}

NextFrame ==
    \/ Quiet /\ Tick
    \/ Quiet /\ EntryCalls(PositiveEntry, AmountOnly(PositiveAmounts), NoFault, MaxEntries)
    \/ Quiet /\ AccountCalls(PositiveAmounts, NoFault)
    \/ Quiet /\ \E updates \in FrameSettings, observe \in BOOLEAN :
                   UpdateSettings(updates, observe)
    \/ Quiet /\ InvestmentCalls(MaxFrameInvestments)

\* the calls of the DataManager on all four storage keys
SpecFrame == Init /\ [][NextFrame]_vars

(***************************************************************************)
(* CurrencyFormatter calls.  format is observed with its result; the       *)
(* follow-up parses the string format returned, under the same code.       *)
(***************************************************************************)
Format(amount, currencyCode) ==
    /\ Observe("format", [amount |-> amount, currencyCode |-> currencyCode],
               format(amount, currencyCode), <<>>, NotFresh)
    /\ UNCHANGED <<savings, spending, settings, investments, clock, faults, base>>

ParseFormatted ==
    /\ obs.op = "format"
    /\ Observe("parse", [formattedAmount |-> obs.result, currencyCode |-> obs.args.currencyCode],
               parse(obs.result, obs.args.currencyCode), <<>>,
               [fresh |-> TRUE, amount |-> obs.args.amount])
    /\ UNCHANGED <<savings, spending, settings, investments, clock, faults, base>>

FormatWithoutSymbol(amount, currencyCode) ==
    /\ Observe("formatWithoutSymbol", [amount |-> amount, currencyCode |-> currencyCode],
               formatWithoutSymbol(amount, currencyCode), <<>>, NotFresh)
    /\ UNCHANGED <<savings, spending, settings, investments, clock, faults, base>>

\* parse on a string of the caller
Parse(formattedAmount, currencyCode) ==
    /\ Observe("parse", [formattedAmount |-> formattedAmount, currencyCode |-> currencyCode],
               parse(formattedAmount, currencyCode), <<>>, NotFresh)
    /\ UNCHANGED <<savings, spending, settings, investments, clock, faults, base>>

GetSymbol(currencyCode) ==
    /\ Observe("getSymbol", [currencyCode |-> currencyCode], getSymbol(currencyCode),
               <<>>, NotFresh)
    /\ UNCHANGED <<savings, spending, settings, investments, clock, faults, base>>

GetCurrency(currencyCode) ==
    /\ Observe("getCurrency", [currencyCode |-> currencyCode], getCurrency(currencyCode),
               <<>>, NotFresh)
    /\ UNCHANGED <<savings, spending, settings, investments, clock, faults, base>>

IsValidCurrency(currencyCode) ==
    /\ Observe("isValidCurrency", [currencyCode |-> currencyCode],
               isValidCurrency(currencyCode), <<>>, NotFresh)
    /\ UNCHANGED <<savings, spending, settings, investments, clock, faults, base>>

\* 0, 0.5, 999.99, 1000 and 1234567.89
RoundTripAmounts == {0, 50, 99999, 100000, 123456789}

\* 1, 12, 123, ...: the number written with the digits 1..k
RECURSIVE Counting(_)
Counting(k) == IF k = 1 THEN 1 ELSE 10 * Counting(k - 1) + k

\* 1.89, 12.89, 123.89, ...: one amount for every length of the integer part
LengthAmounts == {100 * Counting(k) + 89 : k \in 1..MaxIntegerDigits}

\* with 1234567.5 and 2500, and -0.5, -1.23, -123, -1234.5 and -1234567.89
FormatAmounts ==
    RoundTripAmounts \cup LengthAmounts \cup {123456750, 250000}
        \cup {0 - 50, 0 - 123, 0 - 12300, 0 - 123450, 0 - 123456789}
Codes == DOMAIN CURRENCIES

\* a code that is no property of CURRENCIES at all, and the names CURRENCIES
\* inherits
CallCodes == Codes \cup {"XYZ"} \cup ObjectPrototype

\* strings a caller may hand to parse: "", "abc", "$", "-", ".", "1.2.3",
\* "12abc", " 42 ", "$1,234.50", "1.234,5", "NaN", "1e3", "2.5e-1", "1e999",
\* "Infinity", "-Infinity", "$Infinity"
ParseInputs ==
    {<<>>, <<"a", "b", "c">>, <<"$">>, <<"-">>, <<".">>, <<"1", ".", "2", ".", "3">>,
     <<"1", "2", "a", "b", "c">>, <<" ", "4", "2", " ">>,
     <<"$", "1", ",", "2", "3", "4", ".", "5", "0">>, <<"1", ".", "2", "3", "4", ",", "5">>,
     <<"N", "a", "N">>, <<"1", "e", "3">>, <<"2", ".", "5", "e", "-", "1">>,
     <<"1", "e", "9", "9", "9">>,
     <<"I", "n", "f", "i", "n", "i", "t", "y">>,
     <<"-", "I", "n", "f", "i", "n", "i", "t", "y">>,
     <<"$", "I", "n", "f", "i", "n", "i", "t", "y">>}

NextFormatter ==
    \/ Quiet /\ \E amount \in FormatAmounts, currencyCode \in CallCodes :
                   Format(amount, currencyCode)
    \/ Quiet /\ \E amount \in FormatAmounts, currencyCode \in CallCodes :
                   FormatWithoutSymbol(amount, currencyCode)
    \/ ParseFormatted
    \/ Quiet /\ \E formattedAmount \in ParseInputs, currencyCode \in CallCodes :
                   Parse(formattedAmount, currencyCode)
    \/ Quiet /\ \E currencyCode \in CallCodes : GetSymbol(currencyCode)
    \/ Quiet /\ \E currencyCode \in CallCodes : GetCurrency(currencyCode)
    \/ Quiet /\ \E currencyCode \in CallCodes : IsValidCurrency(currencyCode)

\* the calls of CurrencyFormatter on amounts, codes and strings of the caller,
\* and parse on what format returned
SpecFormatter == Init /\ [][NextFormatter]_vars

(***************************************************************************)
(* NumberFormatter calls.                                                  *)
(***************************************************************************)
Abbreviate(value, forceDecimals) ==
    /\ Observe("abbreviate", [value |-> value, forceDecimals |-> forceDecimals],
               abbreviate(value, forceDecimals), <<>>, NotFresh)
    /\ UNCHANGED <<savings, spending, settings, investments, clock, faults, base>>

AbbreviateCurrency(value, currencySymbol, forceDecimals) ==
    /\ Observe("abbreviateCurrency",
               [value |-> value, currencySymbol |-> currencySymbol,
                forceDecimals |-> forceDecimals],
               abbreviateCurrency(value, currencySymbol, forceDecimals), <<>>, NotFresh)
    /\ UNCHANGED <<savings, spending, settings, investments, clock, faults, base>>

FormatForChart(value, currencySymbol) ==
    /\ Observe("formatForChart", [value |-> value, currencySymbol |-> currencySymbol],
               formatForChart(value, currencySymbol), <<>>, NotFresh)
    /\ UNCHANGED <<savings, spending, settings, investments, clock, faults, base>>

SuggestChartRange(maxValue) ==
    /\ Observe("suggestChartRange", [maxValue |-> maxValue], suggestChartRange(maxValue),
               <<>>, NotFresh)
    /\ UNCHANGED <<savings, spending, settings, investments, clock, faults, base>>

\* formatForChart(value) of the value the observed abbreviate(value) was
\* given, recorded together with the string abbreviate returned
ChartOfAbbreviated ==
    /\ obs.op = "abbreviate"
    /\ ~obs.args.forceDecimals
    /\ Observe("formatForChart", [value |-> obs.args.value, currencySymbol |-> <<>>],
               formatForChart(obs.args.value, <<>>), <<>>,
               [fresh |-> TRUE, abbreviated |-> obs.result])
    /\ UNCHANGED <<savings, spending, settings, investments, clock, faults, base>>

\* 0, 1, 999, 1000, 1200, 1250, 1500, 5000, 9990, 12340, 12500, 15000,
\* 100000, 150500, 999999, 1e6, 2.5e6, 1.5e8, 1e9, 1234567890; 999999e3,
\* 999999e6, 1e12, 1.5e12 and 2e15; 0.4, 1.5 and 999.5; -0.4, -999, -1500,
\* -5000 and -150.5e6
ChartValues ==
    {Value(m, 0) : m \in {0, 1, 999, 1000, 1200, 1250, 1500, 5000, 9990, 12340, 12500,
                          15000, 100000, 150500, 999999, 1000000, 2500000, 150000000,
                          1000000000, 1234567890}}
    \cup {Value(999999, 1), Value(999999, 2), Value(1000, 3), Value(1500, 3),
          Value(2000000, 3)}
    \cup {Value(400, 0 - 1), Value(1500, 0 - 1), Value(999500, 0 - 1)}
    \cup {Value(0 - 400, 0 - 1), Value(0 - 999, 0), Value(0 - 1500, 0), Value(0 - 5000, 0),
          Value(0 - 150500000, 0)}

\* 0, 0.005, 1, 5, 9, 80, 83, 84, 100, 416, 417, 1000, 1500, 2.5e6, 1.5e12
\* and -5; 12 * m stays below 10^9
RangeValues ==
    {Value(m, 0) : m \in {0, 1, 5, 9, 80, 83, 84, 100, 416, 417, 1000, 1500, 2500000}}
    \cup {Value(5, 0 - 1), Value(1500, 3), Value(0 - 5, 0)}

NextNumbers ==
    \/ Quiet /\ \E value \in ChartValues, forceDecimals \in BOOLEAN :
                   Abbreviate(value, forceDecimals)
    \/ Quiet /\ \E value \in ChartValues, currencySymbol \in {<<>>, <<"$">>},
                    forceDecimals \in BOOLEAN :
                   AbbreviateCurrency(value, currencySymbol, forceDecimals)
    \/ Quiet /\ \E value \in ChartValues, currencySymbol \in {<<>>, <<"$">>} :
                   FormatForChart(value, currencySymbol)
    \/ Quiet /\ \E maxValue \in RangeValues : SuggestChartRange(maxValue)
    \/ ChartOfAbbreviated

\* the calls of NumberFormatter
SpecNumbers == Init /\ [][NextNumbers]_vars

TypeOK ==
    /\ clock \in Ids
    /\ faults \in 0..MaxFaults
    /\ Len(savings) <= MaxAccounts
    /\ Len(spending) <= MaxLedgerEntries

(***************************************************************************)
(* Vocabulary of the properties.                                           *)
(***************************************************************************)
RECURSIVE SumBalances(_)
SumBalances(accounts) ==
    IF accounts = <<>> THEN 0
    ELSE Head(accounts).balance + SumBalances(Tail(accounts))

\* what the stored entries have taken from the account `id`, net
RECURSIVE NetDebit(_, _)
NetDebit(entries, id) ==
    IF entries = <<>> THEN 0
    ELSE LET e == Head(entries)
             out == IF e.accountId = id THEN e.amount ELSE 0
             in == IF e.type = "transfer" /\ e.transferToAccountId = id THEN e.amount ELSE 0
         IN  out - in + NetDebit(Tail(entries), id)

StorageUnchanged == savings = obs.pre.savings /\ spending = obs.pre.spending

Failed == obs.result \in {"InsufficientBalance", "TransferFailed", "ValidationError"}
                              \cup PersistenceErrors

ObservedAdd == obs.op = "addSpendingEntry"
ObservedUpdate == obs.op = "updateSpendingEntry"
ObservedDelete == obs.op = "deleteSpendingEntry"
ObservedTransfer == obs.op = "transferBetweenAccounts"
ObservedOverwrite == obs.op = "updateSavingsAccount"

\* the observed updateSpendingEntry found its entry; the entry and its merge
UpdateFound == ObservedUpdate /\ FindIndex(obs.pre.spending, obs.args.id) # 0
UpdateOriginal == obs.pre.spending[FindIndex(obs.pre.spending, obs.args.id)]
UpdateMerged == Merge(UpdateOriginal, obs.args.updates)

\* the observed follow-up acted on the entry the add before it stored
OnAddedEntry ==
    /\ obs.origin.fresh
    /\ FindIndex(obs.pre.spending, obs.args.id) = Len(obs.pre.spending)
AddedEntry == obs.pre.spending[Len(obs.pre.spending)]

(***************************************************************************)
(* C1.  Ledger invariant: over a fixed set of accounts, after any sequence *)
(* of addSpendingEntry, updateSpendingEntry and deleteSpendingEntry calls, *)
(* every balance is the initial balance minus the stored expenses on the   *)
(* account, minus the stored transfers out of it, plus the stored          *)
(* transfers into it.                                                      *)
(***************************************************************************)
C1_LedgerInvariant ==
    \A i \in 1..Len(savings) :
        savings[i].balance = base[i].balance - NetDebit(spending, savings[i].id)

(***************************************************************************)
(* C2.  addSpendingEntry of an expense whose amount exceeds the balance of *)
(* the named account fails with InsufficientBalance, changes no balance    *)
(* and stores no entry.                                                    *)
(***************************************************************************)
C2_Overdraw ==
    /\ ObservedAdd
    /\ obs.args.entry.type = "expense"
    /\ HasAccount(obs.pre.savings, obs.args.entry.accountId)
    /\ obs.args.entry.amount > BalanceOf(obs.pre.savings, obs.args.entry.accountId)

C2_OverdrawRefused ==
    C2_Overdraw => obs.result = "InsufficientBalance" /\ StorageUnchanged

C2_Witness == C2_Overdraw /\ obs.result = "InsufficientBalance"

(***************************************************************************)
(* C3.  updateSpendingEntry is one transaction: when the re-apply step     *)
(* fails, balances and entries are as they were before the call.           *)
(***************************************************************************)
C3_UpdateIsTransaction ==
    (ObservedUpdate /\ obs.result \in {"InsufficientBalance", "TransferFailed"})
        => StorageUnchanged

(***************************************************************************)
(* C4.  A transfer entry A->B of amount m has just been added; an update   *)
(* of that entry that changes only the amount to n, n not above the        *)
(* balance A had before the entry, succeeds and leaves A = A0 - n and      *)
(* B = B0 + n, A0 and B0 being the balances before the entry.              *)
(***************************************************************************)
C4_Case ==
    /\ ObservedUpdate
    /\ OnAddedEntry
    /\ AddedEntry.type = "transfer"
    /\ AddedEntry.accountId # AddedEntry.transferToAccountId
    /\ HasAccount(obs.origin.savings, AddedEntry.accountId)
    /\ HasAccount(obs.origin.savings, AddedEntry.transferToAccountId)
    /\ DOMAIN obs.args.updates = {"amount"}
    /\ obs.args.updates.amount <= BalanceOf(obs.origin.savings, AddedEntry.accountId)

C4_TransferAmountUpdate ==
    C4_Case =>
        LET A == AddedEntry.accountId
            B == AddedEntry.transferToAccountId
            n == obs.args.updates.amount
        IN  /\ obs.result = "entry"
            /\ BalanceOf(savings, A) = BalanceOf(obs.origin.savings, A) - n
            /\ BalanceOf(savings, B) = BalanceOf(obs.origin.savings, B) + n

C4_Witness ==
    /\ C4_Case
    /\ obs.result = "entry"
    /\ obs.args.updates.amount # AddedEntry.amount

(***************************************************************************)
(* C5.  Add-then-delete round trip: a successful addSpendingEntry followed *)
(* at once by deleteSpendingEntry of that entry restores every balance and *)
(* the entry list.                                                         *)
(***************************************************************************)
C5_AddDeleteRoundTrip ==
    (ObservedDelete /\ OnAddedEntry)
        => savings = obs.origin.savings /\ spending = obs.origin.spending

(***************************************************************************)
(* C6.  transferBetweenAccounts returns false and changes nothing when an  *)
(* account is missing or the amount exceeds the source balance; otherwise  *)
(* it returns true, the source is debited and the destination credited by  *)
(* the amount, and no other account changes.                               *)
(***************************************************************************)
C6_Refusal ==
    \/ ~HasAccount(obs.pre.savings, obs.args.fromId)
    \/ ~HasAccount(obs.pre.savings, obs.args.toId)
    \/ obs.args.amount > BalanceOf(obs.pre.savings, obs.args.fromId)

\* the balance the claim gives the account at position i
C6_Expected(i) ==
    LET a == obs.pre.savings[i]
        isFrom == i = FindIndex(obs.pre.savings, obs.args.fromId)
        isTo == i = FindIndex(obs.pre.savings, obs.args.toId)
    IN  a.balance - (IF isFrom THEN obs.args.amount ELSE 0)
                  + (IF isTo THEN obs.args.amount ELSE 0)

C6_TransferContract ==
    ObservedTransfer =>
        IF C6_Refusal
        THEN obs.result = "false" /\ StorageUnchanged
        ELSE /\ obs.result = "true"
             /\ Len(savings) = Len(obs.pre.savings)
             /\ \A i \in 1..Len(savings) : savings[i].balance = C6_Expected(i)

(***************************************************************************)
(* C7.  Conservation: transferBetweenAccounts never changes the sum of all *)
(* balances, also when fromId = toId.                                      *)
(***************************************************************************)
C7_Conservation ==
    ObservedTransfer => SumBalances(savings) = SumBalances(obs.pre.savings)

(***************************************************************************)
(* C8.  A transfer entry whose accountId and transferToAccountId are the   *)
(* same account is rejected by addSpendingEntry and updateSpendingEntry    *)
(* before any mutation.                                                    *)
(***************************************************************************)
SelfTransfer(e) ==
    e.type = "transfer" /\ e.accountId # NoId /\ e.accountId = e.transferToAccountId

C8_SelfTransferRejected ==
    (\/ ObservedAdd /\ SelfTransfer(obs.args.entry)
     \/ UpdateFound /\ SelfTransfer(UpdateMerged))
        => Failed /\ StorageUnchanged

(***************************************************************************)
(* C9.  addSpendingEntry and updateSpendingEntry given an amount that is   *)
(* zero or negative report an error before any mutation.                   *)
(***************************************************************************)
C9_NonPositiveAmountRejected ==
    (\/ ObservedAdd /\ obs.args.entry.amount <= 0
     \/ UpdateFound /\ "amount" \in DOMAIN obs.args.updates /\ obs.args.updates.amount <= 0)
        => Failed /\ StorageUnchanged

(***************************************************************************)
(* C10.  Balance non-negativity: when every entry and transfer amount is   *)
(* greater than zero and every balance written directly is at least zero,  *)
(* no stored balance is negative.                                          *)
(***************************************************************************)
C10_NonNegative == \A i \in 1..Len(savings) : savings[i].balance >= 0

\* an account has been emptied by a debit
C10_Witness ==
    /\ obs.op \in {"addSpendingEntry", "transferBetweenAccounts"}
    /\ obs.result \in {"entry", "true"}
    /\ \E i \in 1..Len(savings) :
          savings[i].balance = 0 /\ obs.pre.savings[i].balance > 0

(***************************************************************************)
(* C11.  addSpendingEntry of a transfer entry whose transferBetweenAccounts *)
(* call fails (an account is missing or the amount exceeds the source      *)
(* balance) raises TransferFailed, stores no entry and changes no balance. *)
(***************************************************************************)
C11_TransferFails ==
    /\ ObservedAdd
    /\ obs.args.entry.type = "transfer"
    /\ obs.args.entry.accountId # NoId
    /\ obs.args.entry.transferToAccountId # NoId
    /\ \/ ~HasAccount(obs.pre.savings, obs.args.entry.accountId)
       \/ ~HasAccount(obs.pre.savings, obs.args.entry.transferToAccountId)
       \/ obs.args.entry.amount > BalanceOf(obs.pre.savings, obs.args.entry.accountId)

C11_TransferFailed ==
    C11_TransferFails => obs.result = "TransferFailed" /\ StorageUnchanged

\* both accounts exist and the source balance is too small
C11_Witness ==
    /\ C11_TransferFails
    /\ HasAccount(obs.pre.savings, obs.args.entry.accountId)
    /\ HasAccount(obs.pre.savings, obs.args.entry.transferToAccountId)
    /\ obs.args.entry.accountId # obs.args.entry.transferToAccountId
    /\ obs.result = "TransferFailed"

(***************************************************************************)
(* C12.  updateSpendingEntry and deleteSpendingEntry with an id that       *)
(* matches no stored entry return null / false and change nothing; after a *)
(* successful deleteSpendingEntry no stored entry has the id, so deleting   *)
(* the same entry again is such a call.                                    *)
(***************************************************************************)
C12_NoMatch ==
    /\ ObservedUpdate \/ ObservedDelete
    /\ FindIndex(obs.pre.spending, obs.args.id) = 0

C12_NotFound ==
    /\ C12_NoMatch =>
          /\ obs.result = (IF ObservedUpdate THEN "null" ELSE "false")
          /\ StorageUnchanged
    /\ (ObservedDelete /\ obs.result = "true") => FindIndex(spending, obs.args.id) = 0

\* a delete that misses while an entry and an account are stored
C12_Witness ==
    /\ ObservedDelete
    /\ C12_NoMatch
    /\ obs.pre.spending # <<>>
    /\ obs.pre.savings # <<>>
    /\ obs.result = "false"

(***************************************************************************)
(* C13.  Transfer atomicity: after transferBetweenAccounts between two     *)
(* distinct stored accounts, also when a storage write of the call failed, *)
(* the source is debited exactly when the destination is credited.          *)
(***************************************************************************)
C13_Case ==
    /\ ObservedTransfer
    /\ obs.args.fromId # obs.args.toId
    /\ HasAccount(obs.pre.savings, obs.args.fromId)
    /\ HasAccount(obs.pre.savings, obs.args.toId)

C13_Debited ==
    BalanceOf(savings, obs.args.fromId) # BalanceOf(obs.pre.savings, obs.args.fromId)

C13_Credited ==
    BalanceOf(savings, obs.args.toId) # BalanceOf(obs.pre.savings, obs.args.toId)

C13_TransferAtomic == C13_Case => (C13_Debited <=> C13_Credited)

(***************************************************************************)
(* C14.  When the storage write of the spending-entry list fails inside    *)
(* addSpendingEntry, updateSpendingEntry or deleteSpendingEntry, the call   *)
(* raises the error and has changed no account balance.                    *)
(***************************************************************************)
C14_SpendingWriteFailed ==
    /\ ObservedAdd \/ ObservedUpdate \/ ObservedDelete
    /\ obs.failAt # 0

C14_NoPartialMutation ==
    C14_SpendingWriteFailed =>
        /\ obs.result \in PersistenceErrors
        /\ obs.result = "Failed to save spending" => savings = obs.pre.savings

(***************************************************************************)
(* C15.  Id uniqueness: no two stored spending entries share an id and no  *)
(* two stored savings accounts share an id, also when two of them were     *)
(* added at the same reading of the clock.                                 *)
(***************************************************************************)
UniqueIds(seq) ==
    \A i \in 1..Len(seq), j \in 1..Len(seq) : seq[i].id = seq[j].id => i = j

C15_IdsUnique == UniqueIds(spending) /\ UniqueIds(savings)

(***************************************************************************)
(* C16.  getMonthlySpending and getSpendingByCategory total the expense    *)
(* entries only: each result is the sum of the amounts of the stored       *)
(* expense entries of the queried month (of the queried range and          *)
(* category), and it is the result the query gives on the stored list      *)
(* with every transfer entry removed.                                      *)
(***************************************************************************)
\* sum of the amounts of the entries whose positions are in S
RECURSIVE AmountOf(_, _)
AmountOf(entries, S) ==
    IF S = {} THEN 0
    ELSE LET i == CHOOSE i \in S : TRUE
         IN  entries[i].amount + AmountOf(entries, S \ {i})

Expenses(entries) == {i \in 1..Len(entries) : entries[i].type = "expense"}
WithoutTransfers(entries) == SelectSeq(entries, LAMBDA e : e.type # "transfer")

C16_Monthly ==
    obs.op = "getMonthlySpending" =>
        /\ obs.result = AmountOf(spending, {i \in Expenses(spending) :
                            /\ getFullYear(spending[i].date) = obs.args.year
                            /\ getMonth(spending[i].date) = obs.args.month})
        /\ obs.result = getMonthlySpending(WithoutTransfers(spending),
                                           obs.args.year, obs.args.month)

C16_InRange(entries) ==
    {i \in Expenses(entries) :
        entries[i].date >= obs.args.startDate /\ entries[i].date <= obs.args.endDate}

C16_ByCategory ==
    obs.op = "getSpendingByCategory" =>
        /\ DOMAIN obs.result = {spending[i].category : i \in C16_InRange(spending)}
        /\ \A c \in DOMAIN obs.result :
              obs.result[c] = AmountOf(spending, {i \in C16_InRange(spending) :
                                                   spending[i].category = c})
        /\ obs.result = getSpendingByCategory(WithoutTransfers(spending),
                                              obs.args.startDate, obs.args.endDate)

HasAllKeys(s) == \A c \in s.categories : c \in DOMAIN s.categoryColors

\* the colours the categories had before updateSettings filled the gaps
C17_Before ==
    IF "categoryColors" \in DOMAIN obs.args.updates
    THEN obs.args.updates.categoryColors
    ELSE getSettings(obs.pre.settings).categoryColors

C17_CategoryColorsComplete ==
    /\ (obs.op = "updateSettings" /\ "categories" \in DOMAIN obs.args.updates) =>
          /\ HasAllKeys(obs.result)
          /\ \A c \in obs.result.categories :
                (c \notin DOMAIN C17_Before /\ c \in DOMAIN obs.result.categoryColors)
                    => obs.result.categoryColors[c] = Gray
    /\ (obs.op = "getSettings" /\ obs.origin.fresh /\ "categories" \in DOMAIN obs.origin.updates) =>
          HasAllKeys(obs.result)

(***************************************************************************)
(* C18.  updateSavingsAccount(id, {balance: b}) with a stored id leaves    *)
(* the account with balance b whatever its balance was, and changes no     *)
(* other account and no spending entry; with an unknown id it returns null *)
(* and changes nothing.                                                    *)
(***************************************************************************)
C18_Target == FindIndex(obs.pre.savings, obs.args.id)

C18_Overwrite ==
    ObservedOverwrite =>
        IF C18_Target = 0
        THEN obs.result = "null" /\ StorageUnchanged
        ELSE /\ obs.result = "account"
             /\ Len(savings) = Len(obs.pre.savings)
             /\ savings[C18_Target].id = obs.args.id
             /\ savings[C18_Target].balance = obs.args.balance
             /\ \A i \in 1..Len(savings) : i # C18_Target => savings[i] = obs.pre.savings[i]
             /\ spending = obs.pre.spending

\* the balance of one of two accounts is replaced, an entry being stored
C18_Witness ==
    /\ ObservedOverwrite
    /\ C18_Target # 0
    /\ Len(obs.pre.savings) = MaxAccounts
    /\ spending # <<>>
    /\ obs.pre.savings[C18_Target].balance \notin {0, obs.args.balance}
    /\ obs.result = "account"

(***************************************************************************)
(* C19.  Round-trip law: for every code of the table and every amount in   *)
(* {0, 0.5, 999.99, 1000, 1234567.89}, parse(format(amount, code), code)   *)
(* is the amount rounded to the decimals of the code.                      *)
(***************************************************************************)
\* the amount rounded to `decimals` decimal digits, as a number
Rounded(amount, decimals) ==
    LET unit == Pow10(2 - decimals)
    IN  Normal((amount + (unit \div 2)) \div unit, decimals)

C19_RoundTrip ==
    (/\ obs.op = "parse"
     /\ obs.origin.fresh
     /\ obs.origin.amount \in RoundTripAmounts
     /\ obs.args.currencyCode \in Codes)
        => obs.result = Rounded(obs.origin.amount, ConfigOf(obs.args.currencyCode).decimals)

(***************************************************************************)
(* C20.  format of a non-negative amount groups the integer digits: for    *)
(* INR a separator follows a digit when exactly three digits remain, or    *)
(* more than three and an even number beyond the three; for every other    *)
(* code of the table when a positive multiple of three digits remains, the separator    *)
(* being the thousandsSeparator of the code.  format(1234567.89, 'INR') is *)
(* the rupee sign followed by 12,34,567.89.                                *)
(***************************************************************************)
\* a separator follows a digit that has r digits of the integer part after it
C20_SeparatorAfter(code, r) ==
    IF code = "INR" THEN r = 3 \/ (r > 3 /\ (r - 3) % 2 = 0)
    ELSE r > 0 /\ r % 3 = 0

RECURSIVE C20_Grouped(_, _, _)
C20_Grouped(digits, code, separator) ==
    IF digits = <<>> THEN <<>>
    ELSE <<Head(digits)>>
            \o (IF C20_SeparatorAfter(code, Len(digits) - 1) THEN separator ELSE <<>>)
            \o C20_Grouped(Tail(digits), code, separator)

C20_Expected(amount, code) ==
    LET config == CURRENCIES[code]
        unit == Pow10(2 - config.decimals)
        scaled == (amount + (unit \div 2)) \div unit
        whole == Digits(scaled \div Pow10(config.decimals))
        number == C20_Grouped(whole, code, config.thousandsSeparator)
                     \o (IF config.decimals > 0
                         THEN config.decimalSeparator
                                 \o Padded(scaled % Pow10(config.decimals), config.decimals)
                         ELSE <<>>)
    IN  IF config.symbolPosition = "before" THEN config.symbol \o number
        ELSE number \o <<" ">> \o config.symbol

C20_RupeeExample ==
    <<"U+20B9", "1", "2", ",", "3", "4", ",", "5", "6", "7", ".", "8", "9">>

C20_Grouping ==
    (obs.op = "format" /\ obs.args.amount >= 0 /\ obs.args.currencyCode \in Codes) =>
        /\ obs.result = C20_Expected(obs.args.amount, obs.args.currencyCode)
        /\ (obs.args.amount = 123456789 /\ obs.args.currencyCode = "INR")
              => obs.result = C20_RupeeExample

C20_Witness ==
    /\ obs.op = "format"
    /\ obs.args.amount = 123456789
    /\ obs.args.currencyCode = "INR"
    /\ obs.result = C20_RupeeExample

(***************************************************************************)
(* C21.  For the code IDR format writes the symbol Rp directly before the  *)
(* number, '.' between the groups of three integer digits and ',' before   *)
(* two decimal digits, which are written for a whole amount too:           *)
(* format(1234567.5, 'IDR') is Rp1.234.567,50.                             *)
(***************************************************************************)
\* the natural number n with '.' between its groups of three digits
RECURSIVE C21_Dotted(_)
C21_Dotted(n) ==
    IF n < 1000 THEN Digits(n)
    ELSE C21_Dotted(n \div 1000) \o <<".">> \o Padded(n % 1000, 3)

C21_Example ==
    <<"R", "p", "1", ".", "2", "3", "4", ".", "5", "6", "7", ",", "5", "0">>

C21_Rupiah ==
    (obs.op = "format" /\ obs.args.currencyCode = "IDR" /\ obs.args.amount >= 0) =>
        /\ obs.result = <<"R", "p">> \o C21_Dotted(obs.args.amount \div 100)
                            \o <<",">> \o Padded(obs.args.amount % 100, 2)
        /\ obs.args.amount = 123456750 => obs.result = C21_Example

C21_Witness ==
    /\ obs.op = "format"
    /\ obs.args.currencyCode = "IDR"
    /\ obs.args.amount = 123456750
    /\ obs.result = C21_Example

(***************************************************************************)
(* C22.  format and formatWithoutSymbol render the absolute value: for a   *)
(* negative amount and a code of the table the result is the result for    *)
(* the amount without its sign, and holds no minus sign.                   *)
(***************************************************************************)
C22_Unsigned ==
    IF obs.op = "format" THEN format(0 - obs.args.amount, obs.args.currencyCode)
    ELSE formatWithoutSymbol(0 - obs.args.amount, obs.args.currencyCode)

C22_AbsoluteValue ==
    (/\ obs.op \in {"format", "formatWithoutSymbol"}
     /\ obs.args.currencyCode \in Codes
     /\ obs.args.amount < 0)
        => /\ obs.result = C22_Unsigned
           /\ \A i \in 1..Len(obs.result) : obs.result[i] # "-"

(***************************************************************************)
(* C23.  format(amount, code) is the symbol followed at once by            *)
(* formatWithoutSymbol(amount, code) when the symbolPosition of the code   *)
(* is 'before', and formatWithoutSymbol(amount, code), one space and the   *)
(* symbol when it is 'after'.                                              *)
(***************************************************************************)
C23_SymbolPlacement ==
    (obs.op = "format" /\ obs.args.currencyCode \notin ObjectPrototype) =>
        LET number == formatWithoutSymbol(obs.args.amount, obs.args.currencyCode)
            symbol == getSymbol(obs.args.currencyCode)
            position == getCurrency(obs.args.currencyCode).symbolPosition
        IN  /\ position \in {"before", "after"}
            /\ position = "before" => obs.result = symbol \o number
            /\ position = "after" => obs.result = number \o <<" ">> \o symbol

\* 1000 in euros: 1.000,00 and the euro sign after one space
C23_Witness ==
    /\ obs.op = "format"
    /\ obs.args.currencyCode = "EUR"
    /\ obs.args.amount = 100000
    /\ obs.result = <<"1", ".", "0", "0", "0", ",", "0", "0", " ", "U+20AC">>

(***************************************************************************)
(* C24.  For a code that is not in the table format, formatWithoutSymbol,  *)
(* parse, getSymbol and getCurrency return what they return for 'USD', and *)
(* isValidCurrency returns true for the codes of the table and for no      *)
(* other code.                                                             *)
(***************************************************************************)
C24_ForUSD ==
    CASE obs.op = "format" -> format(obs.args.amount, "USD")
      [] obs.op = "formatWithoutSymbol" -> formatWithoutSymbol(obs.args.amount, "USD")
      [] obs.op = "parse" -> parse(obs.args.formattedAmount, "USD")
      [] obs.op = "getSymbol" -> getSymbol("USD")
      [] obs.op = "getCurrency" -> getCurrency("USD")

C24_UnknownCodeIsUSD ==
    /\ (/\ obs.op \in {"format", "formatWithoutSymbol", "parse", "getSymbol", "getCurrency"}
        /\ obs.args.currencyCode \notin Codes)
           => obs.result = C24_ForUSD
    /\ obs.op = "isValidCurrency" => (obs.result <=> obs.args.currencyCode \in Codes)

(***************************************************************************)
(* C25.  parse returns a finite number for every string: neither NaN nor   *)
(* an infinity, and 0 when parseFloat finds no finite number in what is    *)
(* left of the string.                                                     *)
(***************************************************************************)
C25_ParseIsFinite ==
    obs.op = "parse" =>
        LET number == parseFloat(cleaned(obs.args.formattedAmount, obs.args.currencyCode))
        IN  /\ ~obs.result.nan
            /\ ~obs.result.inf
            /\ (number.nan \/ number.inf) => obs.result = Zero

(***************************************************************************)
(* C26.  abbreviate of a value of magnitude 1000 or more divides by the    *)
(* largest of the thresholds 1e12 (T), 1e9 (B), 1e6 (M), 1e3 (K) that the  *)
(* magnitude reaches; it writes the quotient with one decimal place when   *)
(* forceDecimals is set or the quotient is not whole and is below 100, and *)
(* otherwise the quotient rounded to an integer.  abbreviate(1500) is 1.5K *)
(* and abbreviate(150000000) is 150M.                                      *)
(***************************************************************************)
\* the largest power of 1000, of the first to the fourth, that the magnitude
\* of the value reaches
C26_Threshold(value) ==
    CHOOSE j \in 1..4 : AtLeast(value, j) /\ (j = 4 \/ ~AtLeast(value, j + 1))

C26_Suffix == <<"K", "M", "B", "T">>

\* digits, a point and one digit, after an optional sign
C26_HasOneDecimal(number) ==
    LET unsigned == IF number # <<>> /\ number[1] = "-" THEN Tail(number) ELSE number
        n == Len(unsigned)
    IN  /\ n >= 3
        /\ unsigned[n - 1] = "."
        /\ \A i \in (1..n) \ {n - 1} : IsDigit(unsigned[i])

C26_Abbreviation ==
    (obs.op = "abbreviate" /\ AtLeast(obs.args.value, 1)) =>
        LET j == C26_Threshold(obs.args.value)
            quotient == Quotient(obs.args.value, j)
            oneDecimal == obs.args.forceDecimals
                             \/ (~IsWhole(quotient) /\ Floor(quotient) < 100)
            number == SubSeq(obs.result, 1, Len(obs.result) - 1)
        IN  /\ obs.result[Len(obs.result)] = C26_Suffix[j]
            /\ oneDecimal => /\ C26_HasOneDecimal(number)
                             /\ number = quotientToFixed(quotient, 1)
            /\ ~oneDecimal => number = IntegerString(round(quotient))
            /\ (obs.args.value = Value(1500, 0) /\ ~obs.args.forceDecimals)
                  => obs.result = <<"1", ".", "5", "K">>
            /\ (obs.args.value = Value(150000000, 0) /\ ~obs.args.forceDecimals)
                  => obs.result = <<"1", "5", "0", "M">>

C26_Witness ==
    /\ obs.op = "abbreviate"
    /\ obs.args.value = Value(150000000, 0)
    /\ ~obs.args.forceDecimals
    /\ obs.result = <<"1", "5", "0", "M">>

(***************************************************************************)
(* C27.  formatForChart writes the symbol and 0 for zero, the symbol and   *)
(* the value rounded to an integer for a magnitude below 1000, and         *)
(* otherwise the symbol, the quotient by the threshold reached and the     *)
(* suffix: the quotient as an integer when it is 100 or more, or between   *)
(* 10 and 100 and whole, and with one decimal place in every other case.   *)
(* formatForChart(2500000, '$') is $2.5M.                                  *)
(***************************************************************************)
C27_Number(value) ==
    IF value.m = 0 THEN <<"0">>
    ELSE IF ~AtLeast(value, 1) THEN IntegerString(round(Quotient(value, 0)))
    ELSE LET j == C26_Threshold(value)
             quotient == Quotient(value, j)
             integer == Floor(quotient) >= 100
                           \/ (Floor(quotient) >= 10 /\ IsWhole(quotient))
         IN  (IF integer THEN IntegerString(round(quotient))
              ELSE quotientToFixed(quotient, 1)) \o <<C26_Suffix[j]>>

C27_Example == <<"$", "2", ".", "5", "M">>

C29_Covers(max, maxValue) ==
    LET y == max.x - (3 * maxValue.k - 1)
    IN  IF y >= 0 THEN max.c * Pow10(y) >= 12 * maxValue.m
        ELSE max.c >= 12 * maxValue.m * Pow10(0 - y)

\* 10 times a power of ten is 1 times the next one, and 2 times a power of
\* ten is 0.2 times the next one
C29_Step(max) ==
    CASE max.c = 1 -> Scientific(2, max.x - 1)
      [] max.c = 2 -> Scientific(5, max.x - 1)
      [] max.c = 5 -> Scientific(1, max.x)

C29_ChartRange ==
    (obs.op = "suggestChartRange" /\ obs.args.maxValue.m > 0) =>
        /\ obs.result.min = 0
        /\ ~obs.result.max.nan
        /\ obs.result.max.c \in {1, 2, 5}
        /\ C29_Covers(obs.result.max, obs.args.maxValue)
        /\ obs.result.step = C29_Step(obs.result.max)

\* a maximum of 100: the range is 0 to 200 in steps of 50
C29_Witness ==
    /\ obs.op = "suggestChartRange"
    /\ obs.args.maxValue = Value(100, 0)
    /\ obs.result = [min |-> 0, max |-> Scientific(2, 2), step |-> Scientific(5, 1)]

(***************************************************************************)
(* C28.  getTotalInvestments returns the sum of the amounts of the stored  *)
(* investments, 0 when there is none.                                      *)
(***************************************************************************)
RECURSIVE C28_Sum(_)
C28_Sum(stored) ==
    IF stored = <<>> THEN 0 ELSE Head(stored).amount + C28_Sum(Tail(stored))

C28_TotalIsSum ==
    obs.op = "getTotalInvestments" => obs.result = C28_Sum(investments)

(***************************************************************************)
(* C30.  A deleteSpendingEntry that returns true has applied the revert of *)
(* the entry it removed: for an expense on an account and for a transfer   *)
(* between two distinct accounts, the source account exists and has been   *)
(* credited the amount of the entry, and for the transfer the destination  *)
(* account exists and has been debited the amount.                         *)
(***************************************************************************)
C30_Entry == obs.pre.spending[FindIndex(obs.pre.spending, obs.args.id)]

C30_Case ==
    /\ ObservedDelete
    /\ obs.result = "true"
    /\ FindIndex(obs.pre.spending, obs.args.id) # 0
    /\ ValidEntry(C30_Entry)

C30_Credited ==
    /\ HasAccount(obs.pre.savings, C30_Entry.accountId)
    /\ BalanceOf(savings, C30_Entry.accountId)
          = BalanceOf(obs.pre.savings, C30_Entry.accountId) + C30_Entry.amount

C30_Debited ==
    /\ HasAccount(obs.pre.savings, C30_Entry.transferToAccountId)
    /\ BalanceOf(savings, C30_Entry.transferToAccountId)
          = BalanceOf(obs.pre.savings, C30_Entry.transferToAccountId) - C30_Entry.amount

C30_DeleteReverts ==
    C30_Case => /\ C30_Credited
                /\ C30_Entry.type = "transfer" => C30_Debited

(***************************************************************************)
(* C31.  A successful updateSpendingEntry changes the balances by exactly  *)
(* the reversal of the original entry's effect plus the effect of the      *)
(* updated entry, and it succeeds only when the revert of the original     *)
(* entry was applied: the re-apply never runs on top of an effect whose    *)
(* revert was skipped or failed.                                           *)
(***************************************************************************)
\* the revert of the stored entry e can be applied on these accounts
C31_Revertible(accounts, e) ==
    IF e.type = "expense"
    THEN HasAccount(accounts, e.accountId)
    ELSE /\ HasAccount(accounts, e.accountId)
         /\ HasAccount(accounts, e.transferToAccountId)
         /\ BalanceOf(accounts, e.transferToAccountId) >= e.amount

\* the balance the claim gives the account at position i
C31_Expected(i) ==
    LET a == obs.pre.savings[i]
    IN  a.balance + NetDebit(<<UpdateOriginal>>, a.id) - NetDebit(<<UpdateMerged>>, a.id)

C31_Succeeded == UpdateFound /\ obs.result = "entry"

C31_UpdateIsRevertThenApply ==
    C31_Succeeded =>
        /\ C31_Revertible(obs.pre.savings, UpdateOriginal)
        /\ Len(savings) = Len(obs.pre.savings)
        /\ \A i \in 1..Len(savings) : savings[i].balance = C31_Expected(i)

(***************************************************************************)
(* C32.  The sufficiency check of updateSpendingEntry is made against the  *)
(* reverted balance: an expense of amount m on the stored account A,       *)
(* updated to amount n on the same account, succeeds exactly when          *)
(* balance(A) + m >= n, and on success balance(A) is balance(A) + m - n.   *)
(***************************************************************************)
C32_Case ==
    /\ UpdateFound
    /\ UpdateOriginal.type = "expense"
    /\ UpdateMerged.type = "expense"
    /\ "amount" \in DOMAIN obs.args.updates
    /\ UpdateOriginal.accountId # NoId
    /\ UpdateMerged.accountId = UpdateOriginal.accountId
    /\ HasAccount(obs.pre.savings, UpdateOriginal.accountId)

C32_CheckedAgainstReverted ==
    C32_Case =>
        LET A == UpdateOriginal.accountId
            balance == BalanceOf(obs.pre.savings, A)
            m == UpdateOriginal.amount
            n == UpdateMerged.amount
        IN  /\ obs.result = "entry" <=> balance + m >= n
            /\ obs.result = "entry" => BalanceOf(savings, A) = balance + m - n

\* the new amount exceeds the balance of A but not the reverted balance
C32_Witness ==
    /\ C32_Case
    /\ UpdateMerged.amount > BalanceOf(obs.pre.savings, UpdateOriginal.accountId)
    /\ UpdateMerged.amount > UpdateOriginal.amount
    /\ obs.result = "entry"

(***************************************************************************)
(* C33.  addSpendingEntry of an expense whose accountId is missing or      *)
(* names no stored account fails and stores no entry; a transfer entry     *)
(* that lacks accountId or transferToAccountId is not stored without a     *)
(* balance effect.                                                         *)
(***************************************************************************)
C33_NoAccount ==
    /\ ObservedAdd
    /\ obs.args.entry.type = "expense"
    /\ ~HasAccount(obs.pre.savings, obs.args.entry.accountId)

C33_LacksId ==
    /\ ObservedAdd
    /\ obs.args.entry.type = "transfer"
    /\ NoId \in {obs.args.entry.accountId, obs.args.entry.transferToAccountId}

C33_AccountRequired ==
    /\ C33_NoAccount => Failed /\ spending = obs.pre.spending
    /\ C33_LacksId => spending = obs.pre.spending \/ savings # obs.pre.savings

(***************************************************************************)
(* C34.  addInvestment, updateInvestment and deleteInvestment leave the    *)
(* spending entries, the savings accounts and the settings unchanged, and  *)
(* no spending-entry or account call changes the stored investments.       *)
(***************************************************************************)
C34_InvestmentCalls == {"addInvestment", "updateInvestment", "deleteInvestment"}

C34_LedgerCalls ==
    {"addSpendingEntry", "updateSpendingEntry", "deleteSpendingEntry", "addSavingsAccount",
     "updateSavingsAccount", "deleteSavingsAccount", "transferBetweenAccounts"}

C34_Frame ==
    [][/\ obs'.op \in C34_InvestmentCalls => UNCHANGED <<savings, spending, settings>>
       /\ obs'.op \in C34_LedgerCalls => UNCHANGED investments]_vars

\* an investment call has changed the investments beside stored entries,
\* accounts and settings
C34_Witness ==
    /\ obs.op \in C34_InvestmentCalls
    /\ investments # obs.pre.investments
    /\ savings # <<>>
    /\ spending # <<>>
    /\ settings # NoSettings

(***************************************************************************)
(* C35.  abbreviate(v) and formatForChart(v, '') follow different rules.   *)
(* As stated: they agree on 150,000,000, they disagree on 12,500, and for  *)
(* v >= 1000 they differ exactly when the quotient by the threshold        *)
(* reached is a whole number below 10.                                     *)
(***************************************************************************)
\* both functions were called on one value of 1000 or more
C35_Case ==
    /\ obs.op = "formatForChart"
    /\ obs.origin.fresh
    /\ obs.args.value.m > 0
    /\ AtLeast(obs.args.value, 1)

C35_Differ == obs.result # obs.origin.abbreviated

C35_WholeBelowTen ==
    LET quotient == Quotient(obs.args.value, C26_Threshold(obs.args.value))
    IN  IsWhole(quotient) /\ Floor(quotient) < 10

C35_AsStated ==
    C35_Case =>
        /\ obs.args.value = Value(150000000, 0) => ~C35_Differ
        /\ obs.args.value = Value(12500, 0) => C35_Differ
        /\ C35_Differ <=> C35_WholeBelowTen

(***************************************************************************)
(* C35, as it holds: the two functions agree on 150,000,000 and on 12,500  *)
(* (both write 12.5K), and for v >= 1000 they differ exactly when the      *)
(* quotient is a whole number below 10, as on 5,000 (5K and 5.0K).         *)
(***************************************************************************)
C35_TwoRules ==
    C35_Case =>
        /\ obs.args.value = Value(150000000, 0) => ~C35_Differ
        /\ obs.args.value = Value(12500, 0) =>
              /\ ~C35_Differ
              /\ obs.result = <<"1", "2", ".", "5", "K">>
        /\ obs.args.value = Value(5000, 0) =>
              /\ obs.origin.abbreviated = <<"5", "K">>
              /\ obs.result = <<"5", ".", "0", "K">>
        /\ C35_Differ <=> C35_WholeBelowTen

\* the two functions have written 12,500 alike
C35_Witness ==
    /\ C35_Case
    /\ obs.args.value = Value(12500, 0)
    /\ obs.origin.abbreviated = <<"1", "2", ".", "5", "K">>
    /\ obs.result = obs.origin.abbreviated

(***************************************************************************)
(* C36.  Settings round trip: a category colour written with               *)
(* updateSettings({categoryColors}) is the colour the next getSettings     *)
(* returns for that category.                                              *)
(***************************************************************************)
\* getSettings was called right after updateSettings({categoryColors, ...})
C36_Case ==
    /\ obs.op = "getSettings"
    /\ obs.origin.fresh
    /\ "categoryColors" \in DOMAIN obs.origin.updates

C36_ColorRoundTrip ==
    C36_Case =>
        \A category \in DOMAIN obs.origin.updates.categoryColors :
            /\ category \in DOMAIN obs.result.categoryColors
            /\ obs.result.categoryColors[category]
                  = obs.origin.updates.categoryColors[category]

(***************************************************************************)
(* C37.  Referential integrity: after any sequence of calls, among them    *)
(* deleteSavingsAccount, the accountId and the transferToAccountId of      *)
(* every stored spending entry name a stored account.                      *)
(***************************************************************************)
C37_Referenced(id) == id # NoId => HasAccount(savings, id)

C37_ReferentialIntegrity ==
    \A i \in 1..Len(spending) :
        /\ C37_Referenced(spending[i].accountId)
        /\ C37_Referenced(spending[i].transferToAccountId)

(***************************************************************************)
(* C38.  For a value of 1000 or more, the number abbreviate and            *)
(* formatForChart write before the suffix K, M or B is below 1000: 999,999 *)
(* is not written 1000K.                                                   *)
(***************************************************************************)
C38_Case ==
    /\ obs.op \in {"abbreviate", "formatForChart"}
    /\ obs.args.value.m > 0
    /\ AtLeast(obs.args.value, 1)
    /\ obs.result[Len(obs.result)] \in {"K", "M", "B"}

\* what the result shows between the currency symbol and the suffix
C38_Shown ==
    LET symbol == IF obs.op = "formatForChart" THEN obs.args.currencySymbol ELSE <<>>
    IN  SubSeq(obs.result, Len(symbol) + 1, Len(obs.result) - 1)

\* the number of digits a string starts with
C38_LeadingDigits(str) ==
    CHOOSE n \in 0..Len(str) :
        /\ \A i \in 1..n : IsDigit(str[i])
        /\ n < Len(str) => ~IsDigit(str[n + 1])

C38_BelowThousand == C38_Case => C38_LeadingDigits(C38_Shown) <= 3
====
